---- MODULE Spec2Model ----
(***************************************************************************)
(* The conversation loops of eino-cli and the Bubble Tea view models that  *)
(* consume their events.                                                   *)
(*                                                                         *)
(*   variant "chat"  : src/ui/chat/app.go  + src/ui/chat/model.go          *)
(*   variant "agent" : src/ui/agent/app.go (ChatApp, sendMessageWithModel) *)
(*                     + src/ui/agent/model.go                             *)
(*   variant "ui"    : src/ui/app.go       + src/ui/chat.go                *)
(*                                                                         *)
(* A worker is the goroutine started by sendMessage for one submitted user *)
(* message.  program.Send hands a message to the Bubble Tea event loop,    *)
(* which runs ViewModel.Update on it before it takes the next message, so  *)
(* a Send and the Update it causes are one step.                           *)
(***************************************************************************)
EXTENDS Naturals, Sequences, FiniteSets, TLC

\* ------------------------------------------------------------------ bounds
MaxChunks == 2      \* chunks the stub model streams in its first round
MaxTurns == 2       \* submissions explored in a session (SpecSession)
MaxInput == 1       \* characters typed into the input line
MaxCallbacks == 2   \* callback calls of the ReAct agent in one turn
MaxScroll == 1      \* lines the step view model is scrolled down
MaxSteps == 1       \* execution steps reported in one turn
MaxToolMsgs == 3    \* messages the agent's callback sends in the tool run
MaxNodeEvents == 2  \* node events the ReAct graph reports in one ChatStream call
MaxManagers == 3    \* managers InitializeGlobalManager makes in one run

\* ------------------------------------------------------- program constants
maxIterations == 10
DisplayLimit == 500
ResultLimit == 150

Variants == {"chat", "agent", "ui"}

\* ------------------------------------------------------------ stub inputs
Contents == {"", "a"}

EOF == "EOF"
ClosedPipe == "io: read/write on closed pipe"
Broken == "connection reset"
RecvErrors == {EOF, ClosedPipe, Broken}

\* schema.ToolCall
Fragment(index, id, name, arguments) ==
    [Index |-> index, ID |-> id, Name |-> name, Arguments |-> arguments]

\* a call streamed whole in one chunk
Call(id, name) == Fragment(0, id, name, "{}")

\* The tool calls the stub model may request.  "ok" and "bad" are configured
\* tools (app.tools), "x" is not; a call with an empty name is what a
\* provider streams for the continuation fragment of a call.
CallsOf(v) ==
    CASE v = "chat"  -> {Call("c1", "ok"), Call("c2", "bad"), Call("c3", "x")}
      [] v = "agent" -> {Fragment(0, "c3", "x", ""), Fragment(0, "", "", "{}")}
      [] OTHER       -> {}

\* the tool calls of one chunk: none, one, or three at once
CallTriples(v) ==
    IF v = "chat"
    THEN {<<Fragment(0, "c3", "x", "{}"), Fragment(1, "c2", "bad", "{}"),
            Fragment(2, "c5", "ok", "{long}")>>}
    ELSE {}

CallLists(v) == {<<>>} \cup {<<c>> : c \in CallsOf(v)} \cup CallTriples(v)

\* one streamed *schema.Message
Chunks(v) == [Content : Contents, ToolCalls : CallLists(v)]

ChunkSeqs(v, n) == UNION {[1..k -> Chunks(v)] : k \in 0..n}

\* One round of the stub model: Stream fails, or it streams chunks and then
\* Recv returns the error `end`.
StreamErrRound == [err |-> TRUE, chunks |-> <<>>, end |-> EOF]

FirstRounds(v) ==
    {StreamErrRound} \cup
    {[err |-> FALSE, chunks |-> cs, end |-> e] :
        cs \in ChunkSeqs(v, MaxChunks), e \in RecvErrors}

AnswerRound ==
    [err |-> FALSE, chunks |-> <<[Content |-> "a", ToolCalls |-> <<>>]>>, end |-> EOF]

\* a later round that asks for one tool again, under another call id
ToolRound ==
    [err |-> FALSE,
     chunks |-> <<[Content |-> "", ToolCalls |-> <<Call("c4", "bad")>>]>>,
     end |-> EOF]

TailRounds ==
    { AnswerRound,
      ToolRound,
      [err |-> FALSE, chunks |-> <<>>, end |-> EOF],
      [err |-> FALSE, chunks |-> <<[Content |-> "a", ToolCalls |-> <<>>]>>, end |-> Broken],
      StreamErrRound }

\* A script is the first round and the round every later Stream call
\* replays; a script of three rounds ends with the round that the last
\* Stream call the loop allows is given.
Scripts(v) ==
    {<<r1, r2>> : r1 \in FirstRounds(v), r2 \in TailRounds} \cup
    {<<r1, r1>> : r1 \in FirstRounds(v)}

LimitScripts(v) ==
    {<<r1, ToolRound, r10>> :
        r1 \in {r \in FirstRounds(v) : Len(r.chunks) <= 1 /\ r.end \in {EOF, Broken}},
        r10 \in TailRounds}

SessionScripts(v) ==
    {<<r1, AnswerRound>> :
        r1 \in {r \in FirstRounds(v) : Len(r.chunks) <= 1 /\ r.end \in {EOF, Broken}}}

\* ------------------------------------------------------------------ state
VARIABLES
    variant,     \* which of the three applications runs
    system,      \* ChatApp.system (agent variant)
    tools,       \* ChatApp.tools
    script,      \* the stub model
    maxTurns,    \* submissions explored
    chatModel,   \* app.chatModel != nil
    vm,          \* the Bubble Tea model (ViewModel / ChatModel)
    wk,          \* the workers, one per submitted message
    mcpClient,   \* an mcp.Client with its configuration
    mcpGlobal    \* the package mcp's globalManager and the managers made

vars == <<variant, system, tools, script, maxTurns, chatModel, vm, wk,
          mcpClient, mcpGlobal>>

\* the applications of the chat and agent commands run without MCP servers
NoMcp == [config |-> <<>>]

Workers == 1..MaxTurns

EmptyChunk == [Content |-> "", ToolCalls |-> <<>>]

IdleWorker ==
    [ pc               |-> "idle",
      prompt           |-> "",
      messages         |-> <<>>,       \* processConversation's messages
      iteration        |-> 0,
      fullContent      |-> "",
      hasAssistant     |-> FALSE,      \* assistantMessage != nil
      assistantMessage |-> EmptyChunk,
      allToolCalls     |-> <<>>,
      pos              |-> 0,          \* chunks read from the current stream
      toolCalls        |-> <<>>,       \* executeToolCalls' argument
      idx              |-> 0,          \* executeToolCalls' loop index
      toolMessages     |-> <<>>,
      \* history of the run, for the properties
      events           |-> <<>>,       \* messages handed to program.Send
      streams          |-> 0,          \* Stream calls made
      invoked          |-> <<>>,       \* InvokableRun calls made: [round, name]
      failedAt         |-> 0,          \* round of the adapter's last error but io.EOF
      failure          |-> "",         \* that error: "stream", or what Recv returned
      reported         |-> <<>>,       \* node events handed to ToolCallCallback
      chunks           |-> <<>>,       \* StreamChunks handed to chunkCallback
      returned         |-> "" ]        \* what ChatStream returned: "nil" or "error"

InitVM ==
    [ messages         |-> <<>>,
      input            |-> "",
      isWaiting        |-> FALSE,
      errorMsg         |-> "",
      streamingContent |-> "",
      quit             |-> FALSE ]     \* Update has returned tea.Quit

\* ------------------------------------------------------------- messages
\* schema.UserMessage / SystemMessage / ToolMessage and the streamed chunk
UserMessage(text) ==
    [Role |-> "user", Content |-> text, ToolCalls |-> <<>>, ToolCallID |-> "", ToolName |-> ""]
SystemMessage(text) ==
    [Role |-> "system", Content |-> text, ToolCalls |-> <<>>, ToolCallID |-> "", ToolName |-> ""]
\* ToolMessage with the tool's name stored where the call id belongs
ToolMessageMutant(text, id, name) ==
    [Role |-> "tool", Content |-> text, ToolCalls |-> <<>>, ToolCallID |-> name, ToolName |-> name]
ToolMessage(text, id, name) ==
    [Role |-> "tool", Content |-> text, ToolCalls |-> <<>>, ToolCallID |-> id, ToolName |-> name]
AssistantOf(chunk) ==
    [Role |-> "assistant", Content |-> chunk.Content, ToolCalls |-> chunk.ToolCalls,
     ToolCallID |-> "", ToolName |-> ""]

\* The messages handed to program.Send.  `kind` and `call` are not part of
\* the message: they record which report of executeToolCalls a
\* StreamChunkMsg is ("invoked", "completed", "failed", "missing") and for
\* which call id.
ResponseMsg(text) == [type |-> "ResponseMsg", text |-> text, kind |-> "", call |-> ""]
StreamChunkMsg(text) == [type |-> "StreamChunkMsg", text |-> text, kind |-> "", call |-> ""]
ErrorMsg(text) == [type |-> "ErrorMsg", text |-> text, kind |-> "", call |-> ""]
StreamEndMsg == [type |-> "StreamEndMsg", text |-> "", kind |-> "", call |-> ""]
ToolStartMsg(name, arguments) ==
    [type |-> "ToolStartMsg", text |-> name, arguments |-> arguments, kind |-> "", call |-> ""]
ToolEndMsg(name, result) ==
    [type |-> "ToolEndMsg", text |-> name, result |-> result, kind |-> "", call |-> ""]
ToolReport(kind, call, text) ==
    [type |-> "StreamChunkMsg", text |-> text, kind |-> kind, call |-> call.ID]

\* ------------------------------------------------------------ view model
UIMessage(type, text) ==
    [Type |-> type, Content |-> text, Name |-> "", ToolStatus |-> "",
     Arguments |-> "", Result |-> ""]

\* a tool entry of src/ui/agent/model.go (its time stamps are left out)
ToolEntry(name, status, arguments, result, content) ==
    [Type |-> "tool", Content |-> content, Name |-> name, ToolStatus |-> status,
     Arguments |-> arguments, Result |-> result]

\* strings.Contains
Contains(s, sub) ==
    \E i \in 1..(Len(s) + 1 - Len(sub)) : SubSeq(s, i, i + Len(sub) - 1) = sub

\* strings.ToLower, over the letters of the stub results
RECURSIVE ToLower(_)
ToLower(s) ==
    IF Len(s) = 0 THEN s
    ELSE LET c == SubSeq(s, 1, 1) IN
         (CASE c = "E" -> "e" [] c = "F" -> "f" [] c = "R" -> "r" [] OTHER -> c)
             \o ToLower(SubSeq(s, 2, Len(s)))

\* strings.TrimSpace
RECURSIVE TrimSpace(_)
TrimSpace(s) ==
    IF Len(s) = 0 THEN s
    ELSE IF SubSeq(s, 1, 1) = " " THEN TrimSpace(SubSeq(s, 2, Len(s)))
    ELSE IF SubSeq(s, Len(s), Len(s)) = " " THEN TrimSpace(SubSeq(s, 1, Len(s) - 1))
    ELSE s

\* the result as a tool entry keeps it: at most 150 characters
ShownResult(result) ==
    IF Len(result) > ResultLimit
    THEN SubSeq(result, 1, ResultLimit - 3) \o "..."
    ELSE result

\* ToolEndMsg: the latest waiting entry of that name is resolved, or an
\* entry is added
\* (the third test of the source, a result that starts with the cross mark,
\* is false for every result here: a marshalled result starts with a quote)
\* ResolveTool resolving the oldest waiting entry of that name
ResolveToolMutant(m, name, result) ==
    LET toolResult == TrimSpace(result)
        waiting == {i \in DOMAIN m.messages :
                       /\ m.messages[i].Type = "tool"
                       /\ m.messages[i].Name = name
                       /\ m.messages[i].ToolStatus = "waiting"}
        failed == \/ Contains(ToLower(toolResult), "error")
                  \/ Contains(ToLower(toolResult), "failed") IN
    IF waiting # {}
    THEN LET i == CHOOSE x \in waiting : \A y \in waiting : y >= x IN
         [m EXCEPT !.messages[i] =
             [@ EXCEPT !.Content = "",
                       !.ToolStatus = IF failed THEN "error" ELSE "success",
                       !.Result = ShownResult(toolResult)]]
    ELSE [m EXCEPT !.messages = Append(@,
             ToolEntry(name, "success", "", ShownResult(toolResult),
                       "Tool " \o name \o " completed"
                           \o (IF toolResult # "" THEN " Result: " \o ShownResult(toolResult)
                               ELSE "")))]
ResolveTool(m, name, result) ==
    LET toolResult == TrimSpace(result)
        waiting == {i \in DOMAIN m.messages :
                       /\ m.messages[i].Type = "tool"
                       /\ m.messages[i].Name = name
                       /\ m.messages[i].ToolStatus = "waiting"}
        failed == \/ Contains(ToLower(toolResult), "error")
                  \/ Contains(ToLower(toolResult), "failed") IN
    IF waiting # {}
    THEN LET i == CHOOSE x \in waiting : \A y \in waiting : y <= x IN
         [m EXCEPT !.messages[i] =
             [@ EXCEPT !.Content = "",
                       !.ToolStatus = IF failed THEN "error" ELSE "success",
                       !.Result = ShownResult(toolResult)]]
    ELSE [m EXCEPT !.messages = Append(@,
             ToolEntry(name, "success", "", ShownResult(toolResult),
                       "Tool " \o name \o " completed"
                           \o (IF toolResult # "" THEN " Result: " \o ShownResult(toolResult)
                               ELSE "")))]

\* the pending streamingContent becomes an assistant message of the list
FlushStreaming(m) ==
    IF m.streamingContent # ""
    THEN [m EXCEPT !.messages = Append(@, UIMessage("assistant", m.streamingContent)),
                   !.streamingContent = ""]
    ELSE m

\* src/ui/chat/model.go: ViewModel.Update, the application's messages
UpdateChat(m, msg) ==
    CASE msg.type = "ResponseMsg" ->
            [(IF m.streamingContent # ""
              THEN FlushStreaming(m)
              ELSE [m EXCEPT !.messages = Append(@, UIMessage("assistant", msg.text))])
             EXCEPT !.isWaiting = FALSE]
      [] msg.type = "StreamChunkMsg" ->
            [m EXCEPT !.streamingContent = @ \o msg.text]
      [] msg.type = "ErrorMsg" ->
            FlushStreaming([m EXCEPT !.errorMsg = msg.text,
                                     !.isWaiting = FALSE,
                                     !.messages = Append(@, UIMessage("error", msg.text))])
      [] OTHER -> m

\* src/ui/chat.go: ChatModel.Update
UpdateUi(m, msg) ==
    CASE msg.type = "ResponseMsg" ->
            [(IF m.streamingContent # ""
              THEN FlushStreaming(m)
              ELSE [m EXCEPT !.messages = Append(@, UIMessage("assistant", msg.text))])
             EXCEPT !.isWaiting = FALSE]
      [] msg.type = "StreamChunkMsg" ->
            [m EXCEPT !.streamingContent = @ \o msg.text]
      [] msg.type = "ErrorMsg" ->
            FlushStreaming([m EXCEPT !.errorMsg = msg.text, !.isWaiting = FALSE])
      [] OTHER -> m

\* src/ui/agent/model.go: ViewModel.Update
UpdateAgent(m, msg) ==
    CASE msg.type = "ResponseMsg" ->
            [m EXCEPT !.messages = Append(@, UIMessage("assistant", msg.text)),
                      !.isWaiting = FALSE,
                      !.streamingContent = ""]
      [] msg.type = "StreamChunkMsg" ->
            [m EXCEPT !.streamingContent = @ \o msg.text]
      [] msg.type = "StreamEndMsg" ->
            [FlushStreaming(m) EXCEPT !.isWaiting = FALSE]
      [] msg.type = "ToolStartMsg" ->
            [m EXCEPT !.messages = Append(@,
                          ToolEntry(msg.text, "waiting", msg.arguments, "", ""))]
      [] msg.type = "ToolEndMsg" -> ResolveTool(m, msg.text, msg.result)
      [] msg.type = "ErrorMsg" ->
            [m EXCEPT !.messages = Append(@, UIMessage("error", msg.text)),
                      !.isWaiting = FALSE,
                      !.streamingContent = "",
                      !.errorMsg = msg.text]
      [] OTHER -> m

Update(m, msg) ==
    CASE variant = "chat"  -> UpdateChat(m, msg)
      [] variant = "agent" -> UpdateAgent(m, msg)
      [] OTHER             -> UpdateUi(m, msg)

\* app.program.Send(msg) from worker w: the event loop runs Update on it
Send(w, rec, msg) ==
    /\ wk' = [wk EXCEPT ![w] = [rec EXCEPT !.events = Append(@, msg)]]
    /\ vm' = IF vm.quit THEN vm ELSE Update(vm, msg)

\* a step of worker w that sends nothing
Quiet(w, rec) ==
    /\ wk' = [wk EXCEPT ![w] = rec]
    /\ vm' = vm

MaySend(w, rec, cond, msg) ==
    IF cond THEN Send(w, rec, msg) ELSE Quiet(w, rec)

\* ------------------------------------------------------------ stub tools
\* the names of the instances createTools builds (toolMap's keys)
ToolMap == {tools[i] : i \in 1..Len(tools)}

\* n copies of the text s
RECURSIVE Repeat(_, _)
Repeat(s, n) ==
    IF n = 0 THEN ""
    ELSE LET half == Repeat(s, n \div 2) IN
         half \o half \o (IF n % 2 = 1 THEN s ELSE "")

\* a result one character longer than what is displayed of a result
LongText == Repeat("r", DisplayLimit + 1)

\* toolInstance.InvokableRun(ctx, arguments) of the stub tools: "ok" returns
\* a short result, or a long one when asked to, and "bad" fails
InvokableRun(name, arguments) ==
    IF name = "ok"
    THEN [failed |-> FALSE, text |-> IF arguments = "{long}" THEN LongText ELSE "r"]
    ELSE [failed |-> TRUE, text |-> "boom"]

\* the stub model's round for the n-th Stream call of a turn
RoundOf(n) ==
    IF n <= 1 THEN script[1]
    ELSE IF n = maxIterations /\ Len(script) = 3 THEN script[3]
    ELSE script[2]

\* the texts the loops format (the source's literals are Chinese)
NotExistText(name) == "tool '" \o name \o "' does not exist"
RunFailedText(err) == "tool execution failed: " \o err
LimitText == "iteration limit reached"
ToolsErrorText == "tool execution error"
ToolErrorText(name, err) == "tool " \o name \o " error: " \o err

\* displayResult of src/ui/agent/app.go
DisplayResult(result) ==
    IF Len(result) > DisplayLimit
    THEN SubSeq(result, 1, DisplayLimit) \o "...(truncated)"
    ELSE result

\* ------------------------------------------------------------------- keys
Keys == {"h"}

Started == {w \in Workers : wk[w].pc # "idle"}
Active == {w \in Workers : wk[w].pc \notin {"idle", "done"}}

\* what "enter" accepts as a message
Submittable(input) ==
    IF variant = "agent" THEN input # "" ELSE TrimSpace(input) # ""

\* tea.KeyMsg "enter": the message is added and sendMessage started
KeyEnter ==
    /\ Cardinality(Started) < maxTurns
    /\ ~vm.quit
    /\ IF ~vm.isWaiting /\ Submittable(vm.input)
       THEN LET w == Cardinality(Started) + 1 IN
            /\ vm' = [vm EXCEPT !.messages = Append(@, UIMessage("user", vm.input)),
                               !.input = "",
                               !.isWaiting = TRUE,
                               !.errorMsg = "",
                               !.streamingContent =
                                   IF variant = "agent" THEN "" ELSE @]
            /\ wk' = [wk EXCEPT ![w] = [IdleWorker EXCEPT !.pc = "send",
                                                         !.prompt = vm.input]]
       ELSE UNCHANGED <<vm, wk>>
    /\ UNCHANGED <<mcpClient, mcpGlobal, variant, system, tools, script, maxTurns, chatModel>>

\* tea.KeyMsg of a visible character (keys are followed up to the last
\* submission of the session)
KeyRune ==
    /\ Cardinality(Started) < maxTurns
    /\ ~vm.quit
    /\ \E k \in Keys :
        /\ Len(vm.input) < MaxInput
        /\ vm' = IF vm.isWaiting THEN vm ELSE [vm EXCEPT !.input = @ \o k]
    /\ UNCHANGED <<mcpClient, mcpGlobal, variant, system, tools, script, maxTurns, chatModel, wk>>

\* tea.KeyMsg "backspace"
KeyBackspace ==
    /\ Cardinality(Started) < maxTurns
    /\ ~vm.quit
    /\ vm' = IF ~vm.isWaiting /\ Len(vm.input) > 0
             THEN [vm EXCEPT !.input = SubSeq(@, 1, Len(@) - 1)]
             ELSE vm
    /\ UNCHANGED <<mcpClient, mcpGlobal, variant, system, tools, script, maxTurns, chatModel, wk>>

\* ---------------------------------------------------------- sendMessage
\* the messages the worker goroutine starts from
\* FirstMessages with the system prompt put after the user's message
FirstMessagesMutant(prompt) ==
    IF variant = "agent" /\ system # ""
    THEN <<UserMessage(prompt), SystemMessage(system)>>
    ELSE <<UserMessage(prompt)>>

FirstMessages(prompt) ==
    IF variant = "agent" /\ system # ""
    THEN <<SystemMessage(system), UserMessage(prompt)>>
    ELSE <<UserMessage(prompt)>>

\* the messages ChatWithCallback of the ReAct agent makes of the prompt
AgentMessages(prompt) == <<SystemMessage(system), UserMessage(prompt)>>

\* src/ui/agent/app.go, ChatApp.sendMessage: with tools configured the turn
\* is run by the ReAct agent (sendMessageWithAgent)
WithAgent == variant = "agent" /\ Len(tools) > 0

\* What creating the model (the ReAct agent) can come to when app.chatModel
\* (app.reactAgent) is nil: "ok", the
\* factory fails ("model"), or createTools / WithTools fails ("tools", only
\* when tools are configured).
CreateOutcomes ==
    IF chatModel THEN {"ok"}
    ELSE IF WithAgent THEN {"ok", "agent"}
    ELSE {"ok", "model"} \cup (IF variant = "chat" /\ Len(tools) > 0 THEN {"tools"} ELSE {})

\* sendMessage that starts from the history the turn before left
sendMessageMutant(w) ==
    /\ wk[w].pc = "send"
    /\ \E outcome \in CreateOutcomes :
        IF outcome = "ok"
        THEN /\ chatModel' = TRUE
             /\ Quiet(w, [wk[w] EXCEPT !.pc = IF variant = "ui" THEN "stream"
                                               ELSE IF WithAgent THEN "agent"
                                               ELSE "loop",
                                       !.messages = IF WithAgent
                                                    THEN AgentMessages(wk[w].prompt)
                                                    ELSE (IF w > 1 THEN wk[w - 1].messages
                                                          ELSE <<>>)
                                                         \o FirstMessages(wk[w].prompt)])
        ELSE /\ chatModel' = chatModel
             /\ Send(w, [wk[w] EXCEPT !.pc = "done"],
                     ErrorMsg("create " \o outcome \o " failed"))
    /\ UNCHANGED <<mcpClient, mcpGlobal, variant, system, tools, script, maxTurns>>

\* sendMessage: creates the model on first use, then starts the goroutine
sendMessage(w) ==
    /\ wk[w].pc = "send"
    /\ \E outcome \in CreateOutcomes :
        IF outcome = "ok"
        THEN /\ chatModel' = TRUE
             /\ Quiet(w, [wk[w] EXCEPT !.pc = IF variant = "ui" THEN "stream"
                                               ELSE IF WithAgent THEN "agent"
                                               ELSE "loop",
                                       !.messages = IF WithAgent
                                                    THEN AgentMessages(wk[w].prompt)
                                                    ELSE FirstMessages(wk[w].prompt)])
        ELSE /\ chatModel' = chatModel
             /\ Send(w, [wk[w] EXCEPT !.pc = "done"],
                     ErrorMsg("create " \o outcome \o " failed"))
    /\ UNCHANGED <<mcpClient, mcpGlobal, variant, system, tools, script, maxTurns>>

\* ---------------------------------------------------- processConversation
\* the adapter returned an error other than io.EOF in this round
NoteFailure(rec, what) ==
    [rec EXCEPT !.failedAt = rec.iteration, !.failure = what]

\* LoopHead with the loop condition off by one (iteration <= maxIterations)
LoopHeadMutant(w) ==
    /\ wk[w].pc = "loop"
    /\ IF wk[w].iteration <= maxIterations
       THEN LET rec == [wk[w] EXCEPT !.iteration = @ + 1, !.streams = @ + 1] IN
            IF RoundOf(rec.iteration).err
            THEN Send(w, [NoteFailure(rec, "stream") EXCEPT !.pc = "done"],
                      ErrorMsg("AI response error"))
            ELSE Quiet(w, [rec EXCEPT !.pc = "recv",
                                      !.fullContent = "",
                                      !.hasAssistant = FALSE,
                                      !.assistantMessage = EmptyChunk,
                                      !.allToolCalls = <<>>,
                                      !.pos = 0])
       ELSE Quiet(w, [wk[w] EXCEPT !.pc = "after"])
    /\ UNCHANGED <<mcpClient, mcpGlobal, variant, system, tools, script, maxTurns, chatModel>>

\* LoopHead with the counter declared inside the loop
LoopHeadResetMutant(w) ==
    /\ wk[w].pc = "loop"
    /\ IF wk[w].iteration < maxIterations
       THEN LET rec == [wk[w] EXCEPT !.iteration = 1, !.streams = @ + 1] IN
            IF RoundOf(rec.iteration).err
            THEN Send(w, [NoteFailure(rec, "stream") EXCEPT !.pc = "done"],
                      ErrorMsg("AI response error"))
            ELSE Quiet(w, [rec EXCEPT !.pc = "recv",
                                      !.fullContent = "",
                                      !.hasAssistant = FALSE,
                                      !.assistantMessage = EmptyChunk,
                                      !.allToolCalls = <<>>,
                                      !.pos = 0])
       ELSE Quiet(w, [wk[w] EXCEPT !.pc = "after"])
    /\ UNCHANGED <<mcpClient, mcpGlobal, variant, system, tools, script, maxTurns, chatModel>>

\* for iteration < maxIterations { iteration++; Stream(ctx, messages) ...
LoopHead(w) ==
    /\ wk[w].pc = "loop"
    /\ IF wk[w].iteration < maxIterations
       THEN LET rec == [wk[w] EXCEPT !.iteration = @ + 1, !.streams = @ + 1] IN
            IF RoundOf(rec.iteration).err
            THEN Send(w, [NoteFailure(rec, "stream") EXCEPT !.pc = "done"],
                      ErrorMsg("AI response error"))
            ELSE Quiet(w, [rec EXCEPT !.pc = "recv",
                                      !.fullContent = "",
                                      !.hasAssistant = FALSE,
                                      !.assistantMessage = EmptyChunk,
                                      !.allToolCalls = <<>>,
                                      !.pos = 0])
       ELSE Quiet(w, [wk[w] EXCEPT !.pc = "after"])
    /\ UNCHANGED <<mcpClient, mcpGlobal, variant, system, tools, script, maxTurns, chatModel>>

\* RecvChunk that keeps the content of the last chunk only
RecvChunkMutant(w) ==
    /\ wk[w].pc = "recv"
    /\ wk[w].pos < Len(RoundOf(wk[w].iteration).chunks)
    /\ LET chunk == RoundOf(wk[w].iteration).chunks[wk[w].pos + 1] IN
       Send(w, [wk[w] EXCEPT !.pos = @ + 1,
                             !.fullContent = chunk.Content,
                             !.allToolCalls =
                                 IF variant = "agent" THEN @ \o chunk.ToolCalls ELSE @,
                             !.hasAssistant = TRUE,
                             !.assistantMessage = chunk],
            StreamChunkMsg(chunk.Content))
    /\ UNCHANGED <<mcpClient, mcpGlobal, variant, system, tools, script, maxTurns, chatModel>>

\* streamReader.Recv() returns a chunk
RecvChunk(w) ==
    /\ wk[w].pc = "recv"
    /\ wk[w].pos < Len(RoundOf(wk[w].iteration).chunks)
    /\ LET chunk == RoundOf(wk[w].iteration).chunks[wk[w].pos + 1] IN
       Send(w, [wk[w] EXCEPT !.pos = @ + 1,
                             !.fullContent = @ \o chunk.Content,
                             !.allToolCalls =
                                 IF variant = "agent" THEN @ \o chunk.ToolCalls ELSE @,
                             !.hasAssistant = TRUE,
                             !.assistantMessage = chunk],
            StreamChunkMsg(chunk.Content))
    /\ UNCHANGED <<mcpClient, mcpGlobal, variant, system, tools, script, maxTurns, chatModel>>

\* IsStreamEnd that takes every error of Recv for the end of the stream
IsStreamEndMutant(err) == err \in RecvErrors

\* the Recv errors the loops take for the end of the stream
IsStreamEnd(err) == err = EOF \/ err = ClosedPipe

\* RecvEnd without the return after the error event: the round goes on
RecvEndMutant(w) ==
    /\ wk[w].pc = "recv"
    /\ wk[w].pos = Len(RoundOf(wk[w].iteration).chunks)
    /\ LET err == RoundOf(wk[w].iteration).end
           rec == IF err = EOF THEN wk[w] ELSE NoteFailure(wk[w], err) IN
       MaySend(w, [rec EXCEPT !.pc = "round"], ~IsStreamEnd(err),
               ErrorMsg("stream error: " \o err))
    /\ UNCHANGED <<mcpClient, mcpGlobal, variant, system, tools, script, maxTurns, chatModel>>

\* streamReader.Recv() returns an error
RecvEnd(w) ==
    /\ wk[w].pc = "recv"
    /\ wk[w].pos = Len(RoundOf(wk[w].iteration).chunks)
    /\ LET err == RoundOf(wk[w].iteration).end
           rec == IF err = EOF THEN wk[w] ELSE NoteFailure(wk[w], err) IN
       IF IsStreamEnd(err)
       THEN Quiet(w, [rec EXCEPT !.pc = "round"])
       ELSE Send(w, [rec EXCEPT !.pc = "done"], ErrorMsg("stream error: " \o err))
    /\ UNCHANGED <<mcpClient, mcpGlobal, variant, system, tools, script, maxTurns, chatModel>>

\* the assistant message of the round: the last chunk, in the agent variant
\* with the tool calls of all chunks
RoundMessage(rec) ==
    IF variant = "agent" /\ Len(rec.allToolCalls) > 0 /\ rec.hasAssistant
    THEN [rec.assistantMessage EXCEPT !.ToolCalls = rec.allToolCalls]
    ELSE rec.assistantMessage

HasToolCalls(rec) == rec.hasAssistant /\ Len(RoundMessage(rec).ToolCalls) > 0

\* EndRound that stores the assistant message over the last message
EndRoundMutant(w) ==
    /\ wk[w].pc = "round"
    /\ LET am == RoundMessage(wk[w])
           rec == IF HasToolCalls(wk[w])
                  THEN [wk[w] EXCEPT !.assistantMessage = am,
                                     !.messages = [@ EXCEPT ![Len(@)] = AssistantOf(am)],
                                     !.toolCalls = am.ToolCalls,
                                     !.pc = "exec"]
                  ELSE [wk[w] EXCEPT !.pc = "after"] IN
       MaySend(w, rec, wk[w].fullContent # "", ResponseMsg(wk[w].fullContent))
    /\ UNCHANGED <<mcpClient, mcpGlobal, variant, system, tools, script, maxTurns, chatModel>>

\* EndRound that looks at the limit before it runs the tools of a round
EndRoundLimitMutant(w) ==
    /\ wk[w].pc = "round"
    /\ LET am == RoundMessage(wk[w])
           rec == IF HasToolCalls(wk[w])
                  THEN [wk[w] EXCEPT !.assistantMessage = am,
                                     !.messages = Append(@, AssistantOf(am)),
                                     !.toolCalls = am.ToolCalls,
                                     !.pc = IF wk[w].iteration < maxIterations
                                            THEN "exec" ELSE "after"]
                  ELSE [wk[w] EXCEPT !.pc = "after"] IN
       MaySend(w, rec, wk[w].fullContent # "", ResponseMsg(wk[w].fullContent))
    /\ UNCHANGED <<mcpClient, mcpGlobal, variant, system, tools, script, maxTurns, chatModel>>

\* after the stream: report the content, then run the tools or leave the loop
EndRound(w) ==
    /\ wk[w].pc = "round"
    /\ LET am == RoundMessage(wk[w])
           rec == IF HasToolCalls(wk[w])
                  THEN [wk[w] EXCEPT !.assistantMessage = am,
                                     !.messages = Append(@, AssistantOf(am)),
                                     !.toolCalls = am.ToolCalls,
                                     !.pc = "exec"]
                  ELSE [wk[w] EXCEPT !.pc = "after"] IN
       MaySend(w, rec, wk[w].fullContent # "", ResponseMsg(wk[w].fullContent))
    /\ UNCHANGED <<mcpClient, mcpGlobal, variant, system, tools, script, maxTurns, chatModel>>

\* executeToolCalls up to its loop: createTools and the tool map
ExecStart(w) ==
    /\ wk[w].pc = "exec"
    /\ \E created \in (IF Len(tools) > 0 THEN BOOLEAN ELSE {TRUE}) :
        IF created
        THEN Quiet(w, [wk[w] EXCEPT !.pc = "tools", !.idx = 1, !.toolMessages = <<>>])
        ELSE Send(w, [wk[w] EXCEPT !.pc = "done"], ErrorMsg(ToolsErrorText))
    /\ UNCHANGED <<mcpClient, mcpGlobal, variant, system, tools, script, maxTurns, chatModel>>

\* ToolStep without the report that the tool is called
ToolStepMutant(w) ==
    /\ wk[w].pc = "tools"
    /\ IF wk[w].idx > Len(wk[w].toolCalls)
       THEN Quiet(w, [wk[w] EXCEPT !.messages = @ \o wk[w].toolMessages, !.pc = "loop"])
       ELSE LET call == wk[w].toolCalls[wk[w].idx] IN
            IF variant = "agent" /\ call.Name = ""
            THEN Quiet(w, [wk[w] EXCEPT !.idx = @ + 1])
            ELSE IF call.Name \notin ToolMap
            THEN MaySend(w,
                         [wk[w] EXCEPT !.idx = @ + 1,
                                       !.toolMessages = Append(@,
                                           ToolMessage(NotExistText(call.Name), call.ID, call.Name))],
                         variant = "agent",
                         ToolReport("missing", call, "failed: " \o NotExistText(call.Name)))
            ELSE Quiet(w, [wk[w] EXCEPT !.pc = "invoke"])
    /\ UNCHANGED <<mcpClient, mcpGlobal, variant, system, tools, script, maxTurns, chatModel>>

\* one pass of executeToolCalls' loop up to InvokableRun, or its return
ToolStep(w) ==
    /\ wk[w].pc = "tools"
    /\ IF wk[w].idx > Len(wk[w].toolCalls)
       THEN Quiet(w, [wk[w] EXCEPT !.messages = @ \o wk[w].toolMessages, !.pc = "loop"])
       ELSE LET call == wk[w].toolCalls[wk[w].idx] IN
            IF variant = "agent" /\ call.Name = ""
            THEN Quiet(w, [wk[w] EXCEPT !.idx = @ + 1])
            ELSE IF call.Name \notin ToolMap
            THEN MaySend(w,
                         [wk[w] EXCEPT !.idx = @ + 1,
                                       !.toolMessages = Append(@,
                                           ToolMessage(NotExistText(call.Name), call.ID, call.Name))],
                         variant = "agent",
                         ToolReport("missing", call, "failed: " \o NotExistText(call.Name)))
            ELSE Send(w, [wk[w] EXCEPT !.pc = "invoke"],
                      ToolReport("invoked", call,
                                 "calling tool: " \o call.Name \o " " \o call.Arguments))
    /\ UNCHANGED <<mcpClient, mcpGlobal, variant, system, tools, script, maxTurns, chatModel>>

\* InvokableRun and the tool message and report made of its result
InvokeTool(w) ==
    /\ wk[w].pc = "invoke"
    /\ LET call == wk[w].toolCalls[wk[w].idx]
           out == InvokableRun(call.Name, call.Arguments)
           text == IF out.failed THEN RunFailedText(out.text) ELSE out.text
           shown == IF out.failed THEN "failed: " \o RunFailedText(out.text)
                    ELSE "result: " \o
                         (IF variant = "agent" THEN DisplayResult(out.text) ELSE out.text) IN
       Send(w, [wk[w] EXCEPT !.pc = "tools",
                             !.idx = @ + 1,
                             !.invoked = Append(@, [round |-> wk[w].iteration,
                                                    name |-> call.Name]),
                             !.toolMessages = Append(@, ToolMessage(text, call.ID, call.Name))],
            ToolReport(IF out.failed THEN "failed" ELSE "completed", call, shown))
    /\ UNCHANGED <<mcpClient, mcpGlobal, variant, system, tools, script, maxTurns, chatModel>>

\* if iteration >= maxIterations { Send(ErrorMsg(...)) }
AfterLoop(w) ==
    /\ wk[w].pc = "after"
    /\ MaySend(w, [wk[w] EXCEPT !.pc = "done"],
               wk[w].iteration >= maxIterations, ErrorMsg(LimitText))
    /\ UNCHANGED <<mcpClient, mcpGlobal, variant, system, tools, script, maxTurns, chatModel>>

\* tea.KeyMsg "ctrl+c", accepted while waiting too: Update returns tea.Quit
\* and the program ends. The context of the turn is context.Background():
\* nothing tells the worker, which goes on until the process exits.
KeyCtrlC ==
    /\ ~vm.quit
    /\ vm' = [vm EXCEPT !.quit = TRUE]
    /\ UNCHANGED <<mcpClient, mcpGlobal, variant, system, tools, script, maxTurns, chatModel, wk>>

\* ------------------------------------------------- sendMessageWithAgent
\* What the ReAct agent hands to the callback of sendMessageWithAgent: the
\* content of a streamed message (a string), the map of a tool event
\* (ToolCallCallback of src/unnamed/part_005) or a ToolCallInfo
\* (ToolCallCallback of src/agent/react.go).
CallbackData ==
    { [shape |-> "string", type |-> "", name |-> "", value |-> "a"],
      [shape |-> "map", type |-> "tool_start", name |-> "ok", value |-> "q"],
      [shape |-> "map", type |-> "tool_end", name |-> "ok", value |-> "r"],
      [shape |-> "map", type |-> "tool_error", name |-> "ok", value |-> "boom"],
      [shape |-> "info", type |-> "error", name |-> "ok", value |-> "boom"] }

\* json.Marshal of a string
Marshal(value) == "\"" \o value \o "\""

\* the callback of sendMessageWithAgent, called while ChatWithCallback runs
AgentCallback(w) ==
    /\ wk[w].pc = "agent"
    /\ wk[w].pos < MaxCallbacks
    /\ \E data \in CallbackData :
        LET rec == [wk[w] EXCEPT !.pos = @ + 1] IN
        IF data.shape = "string"
        THEN Send(w, [rec EXCEPT !.fullContent = @ \o data.value],
                  StreamChunkMsg(data.value))
        ELSE IF data.shape = "map" /\ data.type = "tool_start"
        THEN Send(w, rec, ToolStartMsg(data.name, Marshal(data.value)))
        ELSE IF data.shape = "map" /\ data.type = "tool_end"
        THEN Send(w, rec, ToolEndMsg(data.name, Marshal(data.value)))
        ELSE IF data.shape = "map" /\ data.type = "tool_error"
        THEN Send(w, rec, ErrorMsg(ToolErrorText(data.name, data.value)))
        ELSE Quiet(w, rec)
    /\ UNCHANGED <<mcpClient, mcpGlobal, variant, system, tools, script, maxTurns, chatModel>>

\* ChatWithCallback returns: the error, or the response if it is not empty
AgentReturn(w) ==
    /\ wk[w].pc = "agent"
    /\ \E failed \in BOOLEAN :
        IF failed
        THEN Send(w, [wk[w] EXCEPT !.pc = "done"], ErrorMsg("AI response error"))
        ELSE MaySend(w, [wk[w] EXCEPT !.pc = "done"], wk[w].fullContent # "",
                     ResponseMsg(wk[w].fullContent))
    /\ UNCHANGED <<mcpClient, mcpGlobal, variant, system, tools, script, maxTurns, chatModel>>

\* ------------------------------------------- src/ui/app.go's single round
SimpleStream(w) ==
    /\ wk[w].pc = "stream"
    /\ LET rec == [wk[w] EXCEPT !.iteration = 1, !.streams = @ + 1] IN
       IF RoundOf(1).err
       THEN Send(w, [NoteFailure(rec, "stream") EXCEPT !.pc = "done"],
                 ErrorMsg("AI response error"))
       ELSE Quiet(w, [rec EXCEPT !.pc = "read"])
    /\ UNCHANGED <<mcpClient, mcpGlobal, variant, system, tools, script, maxTurns, chatModel>>

SimpleRecvChunk(w) ==
    /\ wk[w].pc = "read"
    /\ wk[w].pos < Len(RoundOf(1).chunks)
    /\ LET chunk == RoundOf(1).chunks[wk[w].pos + 1] IN
       Send(w, [wk[w] EXCEPT !.pos = @ + 1, !.fullContent = @ \o chunk.Content],
            StreamChunkMsg(chunk.Content))
    /\ UNCHANGED <<mcpClient, mcpGlobal, variant, system, tools, script, maxTurns, chatModel>>

\* Recv returns an error: the content is reported first
SimpleRecvEnd(w) ==
    /\ wk[w].pc = "read"
    /\ wk[w].pos = Len(RoundOf(1).chunks)
    /\ LET err == RoundOf(1).end
           rec == IF err = EOF THEN wk[w] ELSE NoteFailure(wk[w], err) IN
       MaySend(w, [rec EXCEPT !.pc = IF IsStreamEnd(err) THEN "done" ELSE "broken"],
               wk[w].fullContent # "", ResponseMsg(wk[w].fullContent))
    /\ UNCHANGED <<mcpClient, mcpGlobal, variant, system, tools, script, maxTurns, chatModel>>

\* ... then the error, unless it is the end of the stream
SimpleRecvError(w) ==
    /\ wk[w].pc = "broken"
    /\ Send(w, [wk[w] EXCEPT !.pc = "done"],
            ErrorMsg("stream error: " \o RoundOf(1).end))
    /\ UNCHANGED <<mcpClient, mcpGlobal, variant, system, tools, script, maxTurns, chatModel>>

\* ---------------------------------------------------------- specification
InitApp ==
    /\ variant \in Variants
    /\ mcpClient = NoMcp
    /\ mcpGlobal = NoMcp
    /\ system \in (IF variant = "agent" THEN {"", "s"} ELSE {""})
    /\ tools \in (CASE variant = "chat"  -> {<<"ok", "bad">>}
                   [] variant = "agent" -> {<<>>, <<"ok", "bad">>}
                   [] OTHER             -> {<<>>})
    /\ chatModel = FALSE
    /\ vm = InitVM
    /\ wk = [w \in Workers |-> IdleWorker]

\* the stub models of an application; with the ReAct agent the model is
\* not called by the application
ScriptsOf(v) ==
    IF WithAgent THEN {<<AnswerRound, AnswerRound>>}
    ELSE IF v = "ui" THEN {<<r, r>> : r \in FirstRounds(v)}
    ELSE Scripts(v)

Init ==
    /\ InitApp
    /\ script \in ScriptsOf(variant)
    /\ maxTurns = 1

InitSession ==
    /\ InitApp
    /\ script \in (IF WithAgent THEN {<<AnswerRound, AnswerRound>>}
                   ELSE SessionScripts(variant))
    /\ maxTurns = MaxTurns

Next ==
    \/ KeyEnter
    \/ KeyRune
    \/ KeyBackspace
    \/ \E w \in Workers :
        \/ sendMessage(w)
        \/ LoopHead(w)
        \/ RecvChunk(w)
        \/ RecvEnd(w)
        \/ EndRound(w)
        \/ ExecStart(w)
        \/ ToolStep(w)
        \/ InvokeTool(w)
        \/ AfterLoop(w)
        \/ AgentCallback(w)
        \/ AgentReturn(w)
        \/ SimpleStream(w)
        \/ SimpleRecvChunk(w)
        \/ SimpleRecvEnd(w)
        \/ SimpleRecvError(w)

Spec == Init /\ [][Next]_vars

SpecSession == InitSession /\ [][Next]_vars

\* the same turn run twice: two submissions to one application
InitTwice ==
    /\ InitApp
    /\ script \in (IF WithAgent THEN {<<AnswerRound, AnswerRound>>}
                   ELSE SessionScripts(variant))
    /\ maxTurns = 2

SpecTwice == InitTwice /\ [][Next]_vars

\* one turn with a stub model whose last allowed round is its own
InitLimit ==
    /\ InitApp
    /\ script \in (IF WithAgent THEN {<<AnswerRound, AnswerRound>>}
                   ELSE IF variant = "ui" THEN SessionScripts(variant)
                   ELSE LimitScripts(variant))
    /\ maxTurns = 1

SpecLimit == InitLimit /\ [][Next]_vars

\* ------------------------------ the view model with execution steps
\* src/ui/agent/model.go, second ViewModel (lines 737-1447).  Steps are
\* counted from 1 here, 0 standing for the source's -1.
NewStepsViewModel ==
    [ messages         |-> <<>>,
      input            |-> "",
      cursor           |-> 0,
      viewport         |-> 0,
      isWaiting        |-> FALSE,
      errorMsg         |-> "",
      streamingContent |-> "",
      executionSteps   |-> <<>>,
      currentStep      |-> 0,
      showSteps        |-> TRUE,
      selectedStep     |-> 0,
      showStepDetails  |-> FALSE,
      detailsViewport  |-> 0,
      quit             |-> FALSE ]

ExecutionStep(name) == [Name |-> name, Status |-> "running", Output |-> "", Error |-> ""]

StepKeys ==
    {"ctrl+c", "q", "enter", "backspace", "left", "right", "up", "down", "tab", "esc",
     "h", "1"}

\* strconv.Atoi of a key: the number, or 0 for a key that is no number
Atoi(key) == IF key = "1" THEN 1 ELSE 0

HasCurrentStep(m) == m.currentStep >= 1 /\ m.currentStep <= Len(m.executionSteps)

\* SetError: the message, and the current step marked as failed
SetError(m, err) ==
    [m EXCEPT !.errorMsg = err,
              !.executionSteps =
                  IF HasCurrentStep(m)
                  THEN [@ EXCEPT ![m.currentStep] = [@ EXCEPT !.Status = "error", !.Error = err]]
                  ELSE @]

\* Update, case tea.KeyMsg
UpdateStepsKey(m, key) ==
    CASE key \in {"ctrl+c", "q"} -> [m EXCEPT !.quit = TRUE]
      [] key = "enter" ->
            IF m.showStepDetails /\ m.selectedStep >= 1
            THEN [m EXCEPT !.showStepDetails = FALSE]
            ELSE IF m.input # "" /\ ~m.isWaiting
            THEN [SetError([m EXCEPT !.messages = Append(@, [Role |-> "user", Content |-> m.input]),
                                    !.input = "",
                                    !.cursor = 0,
                                    !.isWaiting = TRUE], "")
                    EXCEPT !.executionSteps = <<>>,
                           !.currentStep = 0,
                           !.selectedStep = 0,
                           !.showStepDetails = FALSE]
            ELSE m
      [] key = "backspace" ->
            IF m.cursor > 0
            THEN [m EXCEPT !.input = SubSeq(@, 1, m.cursor - 1) \o SubSeq(@, m.cursor + 1, Len(@)),
                           !.cursor = @ - 1]
            ELSE m
      [] key = "left" -> IF m.cursor > 0 THEN [m EXCEPT !.cursor = @ - 1] ELSE m
      [] key = "right" -> IF m.cursor < Len(m.input) THEN [m EXCEPT !.cursor = @ + 1] ELSE m
      [] key = "up" ->
            IF m.showStepDetails
            THEN (IF m.detailsViewport > 0 THEN [m EXCEPT !.detailsViewport = @ - 1] ELSE m)
            ELSE IF m.viewport > 0 THEN [m EXCEPT !.viewport = @ - 1]
            ELSE m
      [] key = "down" ->
            IF m.showStepDetails
            THEN [m EXCEPT !.detailsViewport = @ + 1]
            ELSE [m EXCEPT !.viewport = @ + 1]
      [] key = "tab" ->
            [m EXCEPT !.showSteps = ~@,
                      !.showStepDetails = IF m.showSteps THEN FALSE ELSE @]
      [] key = "esc" -> IF m.showStepDetails THEN [m EXCEPT !.showStepDetails = FALSE] ELSE m
      [] OTHER ->
            IF /\ m.showSteps /\ ~m.showStepDetails /\ ~m.isWaiting
               /\ Atoi(key) > 0 /\ Atoi(key) <= Len(m.executionSteps)
            THEN [m EXCEPT !.selectedStep = Atoi(key),
                           !.showStepDetails = TRUE,
                           !.detailsViewport = 0]
            ELSE IF ~m.isWaiting /\ ~m.showStepDetails
            THEN [m EXCEPT !.input = SubSeq(@, 1, m.cursor) \o key
                                         \o SubSeq(@, m.cursor + 1, Len(@)),
                           !.cursor = @ + 1]
            ELSE m

\* Update, the cases of the messages the worker sends
UpdateStepsSink(m, msg) ==
    CASE msg.type = "ResponseMsg" ->
            [m EXCEPT !.messages = Append(@, [Role |-> "assistant", Content |-> msg.text]),
                      !.isWaiting = FALSE,
                      !.streamingContent = "",
                      !.executionSteps =
                          IF HasCurrentStep(m)
                          THEN [@ EXCEPT ![m.currentStep] = [@ EXCEPT !.Status = "completed"]]
                          ELSE @]
      [] msg.type = "StreamChunkMsg" ->
            [m EXCEPT !.streamingContent = @ \o msg.text,
                      !.executionSteps =
                          IF HasCurrentStep(m)
                          THEN [@ EXCEPT ![m.currentStep] = [@ EXCEPT !.Output = @ \o msg.text]]
                          ELSE @]
      [] msg.type = "ErrorMsg" ->
            [SetError(m, msg.text) EXCEPT !.isWaiting = FALSE, !.streamingContent = ""]
      [] msg.type = "StepStartMsg" ->
            [m EXCEPT !.executionSteps = Append(@, ExecutionStep(msg.text)),
                      !.currentStep = Len(m.executionSteps) + 1]
      [] OTHER ->
            [m EXCEPT !.executionSteps =
                          IF HasCurrentStep(m)
                          THEN [@ EXCEPT ![m.currentStep] = [@ EXCEPT !.Status = "completed"]]
                          ELSE @]

StepsSinkMsgs ==
    { ResponseMsg("a"), StreamChunkMsg("a"), ErrorMsg("e"),
      [type |-> "StepStartMsg", text |-> "s", kind |-> "", call |-> ""],
      [type |-> "StepEndMsg", text |-> "s", kind |-> "", call |-> ""] }

UserTurns(m) == Cardinality({i \in DOMAIN m.messages : m.messages[i].Role = "user"})

\* a key is pressed (followed within the bounds of the exploration)
StepsKey(key) ==
    /\ ~vm.quit
    /\ key = "down" => vm.viewport < MaxScroll /\ vm.detailsViewport < MaxScroll
    /\ key = "enter" => UserTurns(vm) < MaxTurns
    /\ key \in {"h", "1"} => Len(vm.input) < MaxInput
    /\ vm' = UpdateStepsKey(vm, key)
    /\ UNCHANGED <<mcpClient, mcpGlobal, variant, system, tools, script, maxTurns, chatModel, wk>>

\* the worker of a submitted message sends a message to the program
StepsSink(msg) ==
    /\ ~vm.quit
    /\ UserTurns(vm) >= 1
    /\ msg.type = "ResponseMsg" => Len(vm.messages) < 2 * MaxTurns
    /\ msg.type = "StreamChunkMsg" =>
           /\ Len(vm.streamingContent) < MaxChunks
           /\ HasCurrentStep(vm) => Len(vm.executionSteps[vm.currentStep].Output) < MaxChunks
    /\ msg.type = "StepStartMsg" => Len(vm.executionSteps) < MaxSteps
    /\ vm' = UpdateStepsSink(vm, msg)
    /\ UNCHANGED <<mcpClient, mcpGlobal, variant, system, tools, script, maxTurns, chatModel, wk>>

InitSteps ==
    /\ variant = "steps"
    /\ mcpClient = NoMcp
    /\ mcpGlobal = NoMcp
    /\ system = ""
    /\ tools = <<>>
    /\ script = <<AnswerRound, AnswerRound>>
    /\ maxTurns = MaxTurns
    /\ chatModel = FALSE
    /\ vm = NewStepsViewModel
    /\ wk = [w \in Workers |-> IdleWorker]

NextSteps ==
    \/ \E key \in StepKeys : StepsKey(key)
    \/ \E msg \in StepsSinkMsgs : StepsSink(msg)

SpecSteps == InitSteps /\ [][NextSteps]_vars

\* one turn of a session that the user may leave with ctrl+c
InitQuit ==
    /\ InitApp
    /\ script \in (IF WithAgent THEN {<<AnswerRound, AnswerRound>>}
                   ELSE SessionScripts(variant))
    /\ maxTurns = 1

NextQuit == Next \/ KeyCtrlC

SpecQuit == InitQuit /\ [][NextQuit]_vars

\* --------------------------------------- AgentApp of src/ui/agent/app.go
\* the streams the ReAct agent's Stream call can give: message contents and
\* the error that ends them
StreamContents == {"", "a", "b"}

AgentStreams ==
    {StreamErrRound} \cup
    {[err |-> FALSE, chunks |-> cs, end |-> e] :
        cs \in UNION {[1..k -> [Content : StreamContents, ToolCalls : {<<>>}]] :
                         k \in 0..MaxChunks},
        e \in RecvErrors}

\* agent.StreamChunk
StreamChunk(type, content) == [Type |-> type, Content |-> content]

\* agent.ToolCallInfo; dyn is the dynamic type a type switch sees
ToolCallInfo(type, name, arguments, result, error) ==
    [dyn |-> "ToolCallInfo", Type |-> type, Name |-> name,
     Arguments |-> arguments, Result |-> result, Error |-> error]

\* the nodes of the ReAct graph that run callbacks, by RunInfo.Name
NodeNames == {"", "ChatModel", "Tools", "ReActAgent", "ok"}
NodeEventTypes == {"start", "end", "error"}

\* ToolCallCallback.OnStart / OnEnd / OnError: what the callback is handed
OnStart(name) ==
    IF name # "" THEN <<ToolCallInfo("start", name, "q", "", "")>> ELSE <<>>
OnEnd(name) ==
    IF name # "" THEN <<ToolCallInfo("end", name, "", "r", "")>> ELSE <<>>
OnError(name) ==
    IF name # "" THEN <<ToolCallInfo("error", name, "", "", "boom")>> ELSE <<>>

isInternalComponent(name) == name \in {"ChatModel", "Tools", "ReActAgent"}

\* toolCallback of AgentApp.processConversation: the messages it sends
toolCallback(v) ==
    CASE v.dyn = "struct{Name,Arguments}" ->
            IF ~isInternalComponent(v.Name)
            THEN <<ToolStartMsg(v.Name, v.Arguments)>> ELSE <<>>
      [] v.dyn = "struct{Name,Result}" ->
            IF ~isInternalComponent(v.Name)
            THEN <<ToolEndMsg(v.Name, v.Result)>> ELSE <<>>
      [] v.dyn = "string" -> <<ErrorMsg(v.value)>>
      [] OTHER -> <<>>

\* chunkCallback of AgentApp.processConversation: the message it sends
chunkCallback(chunk) ==
    CASE chunk.Type = "content" ->
            IF chunk.Content # "" THEN <<StreamChunkMsg(chunk.Content)>>
            ELSE <<StreamEndMsg>>
      [] chunk.Type = "error" -> <<ErrorMsg(chunk.Content)>>
      [] OTHER -> <<>>

\* ChatStream hands a chunk to chunkCallback
Deliver(w, rec, chunk) ==
    LET msgs == chunkCallback(chunk)
        now == [rec EXCEPT !.chunks = Append(@, chunk)] IN
    IF msgs = <<>> THEN Quiet(w, now) ELSE Send(w, now, msgs[1])

\* AgentApp.sendMessage: the messages, and processConversation started
AgentAppSend(w) ==
    /\ wk[w].pc = "send"
    /\ Quiet(w, [wk[w] EXCEPT !.pc = "chatstream",
                              !.messages = (IF system # "" THEN <<SystemMessage(system)>>
                                            ELSE <<>>) \o <<UserMessage(wk[w].prompt)>>])
    /\ UNCHANGED <<mcpClient, mcpGlobal, variant, system, tools, script, maxTurns, chatModel>>

\* processConversation up to ChatStream's Stream call; chatModel stands
\* for r.agent, set by the first Init that succeeds
ChatStreamStart(w) ==
    /\ wk[w].pc = "chatstream"
    /\ IF wk[w].prompt = ""
       THEN /\ chatModel' = chatModel
            /\ Send(w, [wk[w] EXCEPT !.pc = "done"], ErrorMsg("user message not found"))
       ELSE \E outcome \in (IF chatModel THEN {"ok"} ELSE {"ok", "model", "tools"}) :
            IF outcome # "ok"
            THEN /\ chatModel' = chatModel
                 /\ Send(w, [wk[w] EXCEPT !.pc = "done", !.returned = "error"],
                         ErrorMsg("AI response error"))
            ELSE /\ chatModel' = TRUE
                 /\ LET rec == [wk[w] EXCEPT !.iteration = 1, !.streams = @ + 1] IN
                    IF RoundOf(1).err
                    THEN Deliver(w, [NoteFailure(rec, "stream")
                                        EXCEPT !.pc = "returning", !.returned = "error"],
                                 StreamChunk("error", "Stream failed"))
                    ELSE Quiet(w, [rec EXCEPT !.pc = "recvstream"])
    /\ UNCHANGED <<mcpClient, mcpGlobal, variant, system, tools, script, maxTurns>>

\* a node of the graph starts, ends or fails while the stream is read
NodeEvent(w) ==
    /\ wk[w].pc = "recvstream"
    /\ Len(wk[w].reported) < MaxNodeEvents
    /\ \E type \in NodeEventTypes, name \in NodeNames :
        LET values == CASE type = "start" -> OnStart(name)
                        [] type = "end"   -> OnEnd(name)
                        [] OTHER          -> OnError(name)
            msgs == IF values = <<>> THEN <<>> ELSE toolCallback(values[1])
            rec == [wk[w] EXCEPT !.reported = Append(@, [Type |-> type, Name |-> name])] IN
        IF msgs = <<>> THEN Quiet(w, rec) ELSE Send(w, rec, msgs[1])
    /\ UNCHANGED <<mcpClient, mcpGlobal, variant, system, tools, script, maxTurns, chatModel>>

\* sr.Recv gave a message: its content, if any, is a content chunk
ChatStreamRecv(w) ==
    /\ wk[w].pc = "recvstream"
    /\ wk[w].pos < Len(RoundOf(1).chunks)
    /\ LET msg == RoundOf(1).chunks[wk[w].pos + 1]
           rec == [wk[w] EXCEPT !.pos = @ + 1, !.fullContent = @ \o msg.Content] IN
       IF msg.Content # ""
       THEN Deliver(w, rec, StreamChunk("content", msg.Content))
       ELSE Quiet(w, rec)
    /\ UNCHANGED <<mcpClient, mcpGlobal, variant, system, tools, script, maxTurns, chatModel>>

\* sr.Recv gave an error: io.EOF ends the call with the end marker, any
\* other error with an error chunk
ChatStreamEnd(w) ==
    /\ wk[w].pc = "recvstream"
    /\ wk[w].pos = Len(RoundOf(1).chunks)
    /\ IF RoundOf(1).end = EOF
       THEN Deliver(w, [wk[w] EXCEPT !.pc = "done", !.returned = "nil"],
                    StreamChunk("content", ""))
       ELSE Deliver(w, [NoteFailure(wk[w], RoundOf(1).end)
                           EXCEPT !.pc = "returning", !.returned = "error"],
                    StreamChunk("error", "failed to receive stream message"))
    /\ UNCHANGED <<mcpClient, mcpGlobal, variant, system, tools, script, maxTurns, chatModel>>

\* processConversation after ChatStream returned its error
ProcessReturn(w) ==
    /\ wk[w].pc = "returning"
    /\ Send(w, [wk[w] EXCEPT !.pc = "done"], ErrorMsg("AI response error"))
    /\ UNCHANGED <<mcpClient, mcpGlobal, variant, system, tools, script, maxTurns, chatModel>>

InitAgentApp ==
    /\ variant = "agent"
    /\ mcpClient = NoMcp
    /\ mcpGlobal = NoMcp
    /\ system \in {"", "s"}
    /\ tools = <<"ok">>
    /\ script \in {<<r, r>> : r \in AgentStreams}
    /\ maxTurns = 1
    /\ chatModel = FALSE
    /\ vm = InitVM
    /\ wk = [w \in Workers |-> IdleWorker]

NextAgentApp ==
    \/ KeyEnter
    \/ KeyRune
    \/ \E w \in Workers :
        \/ AgentAppSend(w)
        \/ ChatStreamStart(w)
        \/ NodeEvent(w)
        \/ ChatStreamRecv(w)
        \/ ChatStreamEnd(w)
        \/ ProcessReturn(w)

SpecAgentApp == InitAgentApp /\ [][NextAgentApp]_vars

\* the agent's run of one turn seen from the view model: the messages its
\* callback hands to program.Send, in any order
ToolSinkMsgs ==
    {ToolStartMsg(name, Marshal("q")) : name \in {"ok", "bad"}}
        \cup {ToolEndMsg(name, Marshal(value)) :
                  name \in {"ok", "bad"}, value \in {"r", "Error"}}
        \cup {StreamChunkMsg("a"), ResponseMsg("a"), ErrorMsg("tool ok error: boom")}

ToolSink(w, msg) ==
    /\ wk[w].pc = "agent"
    /\ Len(wk[w].events) < MaxToolMsgs
    /\ Send(w, wk[w], msg)
    /\ UNCHANGED <<mcpClient, mcpGlobal, variant, system, tools, script, maxTurns, chatModel>>

InitTools ==
    /\ variant = "agent"
    /\ mcpClient = NoMcp
    /\ mcpGlobal = NoMcp
    /\ system = "s"
    /\ tools = <<"ok", "bad">>
    /\ script = <<AnswerRound, AnswerRound>>
    /\ maxTurns = 1
    /\ chatModel = TRUE
    /\ vm = [InitVM EXCEPT !.messages = <<UIMessage("user", "h")>>,
                           !.isWaiting = TRUE]
    /\ wk = [w \in Workers |->
                IF w = 1
                THEN [IdleWorker EXCEPT !.pc = "agent",
                                        !.prompt = "h",
                                        !.messages = AgentMessages("h")]
                ELSE IdleWorker]

NextTools == \E w \in Workers : \E msg \in ToolSinkMsgs : ToolSink(w, msg)

SpecTools == InitTools /\ [][NextTools]_vars

\* ------------------------------------------------------ package src/mcp
\* the configured MCP servers and the tools each one offers
ServerNames == {"a", "a_b", "c"}
ToolNames == {"x", "b_x"}

McpConfigs == UNION {[S -> SUBSET ToolNames] : S \in SUBSET ServerNames}

\* an entry of Client.tools: the key and the tool instance (its server and
\* the name its Info gives)
ToolKey(serverName, name) == serverName \o "_" \o name

Registered(serverName, name) ==
    [key |-> ToolKey(serverName, name), server |-> serverName, tool |-> name]

\* c.tools[toolName] = invokableTool for the tools T of one server
RegisterTools(reg, serverName, T) ==
    LET added == {Registered(serverName, t) : t \in T} IN
    {r \in reg : \A e \in added : e.key # r.key} \cup added

\* the orders a range over the map c.clients can take
Orders(S) ==
    {f \in [1..Cardinality(S) -> S] : \A i, j \in DOMAIN f : i # j => f[i] # f[j]}

\* discoverTools over the first n servers of an order
RECURSIVE DiscoverTools(_, _, _)
DiscoverTools(cfg, order, n) ==
    IF n = 0 THEN {}
    ELSE RegisterTools(DiscoverTools(cfg, order, n - 1), order[n], cfg[order[n]])

\* what discoverTools leaves in c.tools when it fails at a server: the
\* tools registered before the call that failed
PartsBeforeFailure(T) == {P \in SUBSET T : P # T \/ P = {}}

NewClient(cfg) ==
    [config |-> cfg, tools |-> {}, discovered |-> {}, state |-> "new",
     asked |-> {}, called |-> FALSE, result |-> {}]

\* discoverTools went through the whole order
Discovered(c, order) ==
    [c EXCEPT !.state = "ok",
              !.tools = DiscoverTools(c.config, order, Len(order)),
              !.discovered = UNION {{Registered(sv, t) : t \in c.config[sv]} :
                                       sv \in DOMAIN c.config}]

\* discoverTools failed at the server after the first n of the order
FailedAfter(c, order, n) ==
    {[c EXCEPT !.state = "failed",
               !.tools = RegisterTools(DiscoverTools(c.config, order, n), order[n + 1], P),
               !.discovered = UNION {{Registered(order[i], t) : t \in c.config[order[i]]} :
                                        i \in 1..n}
                              \cup {Registered(order[n + 1], t) : t \in P}] :
        P \in PartsBeforeFailure(c.config[order[n + 1]])}

\* Client.Initialize: the clients it can leave (it fails before any tool is
\* discovered, or in discoverTools, or not at all)
Initialized(c) ==
    {[c EXCEPT !.state = "failed"]} \cup
    UNION {{Discovered(c, order)}
               \cup UNION {FailedAfter(c, order, n) : n \in 0..(Len(order) - 1)} :
           order \in Orders(DOMAIN c.config)}

\* the test of GetToolsForServers: toolName starts with serverName_
HasServerPrefix(toolName, serverName) ==
    /\ Len(toolName) > Len(serverName) + 1
    /\ SubSeq(toolName, 1, Len(serverName) + 1) = serverName \o "_"

GetToolsForServers(c, serverNames) ==
    {r \in c.tools : \E sv \in serverNames : HasServerPrefix(r.key, sv)}

ClientInitialize ==
    /\ mcpClient.state = "new"
    /\ mcpClient' \in Initialized(mcpClient)
    /\ UNCHANGED <<variant, system, tools, script, maxTurns, chatModel, vm, wk, mcpGlobal>>

\* Manager.GetToolsForAgent for an agent that names the servers S; a
\* manager is reached only after its Initialize has returned
GetToolsForAgent ==
    /\ mcpClient.state # "new"
    /\ \E S \in SUBSET DOMAIN mcpClient.config :
        mcpClient' = [mcpClient EXCEPT !.asked = S,
                                       !.called = TRUE,
                                       !.result = GetToolsForServers(mcpClient, S)]
    /\ UNCHANGED <<variant, system, tools, script, maxTurns, chatModel, vm, wk, mcpGlobal>>

InitMcpClient ==
    /\ variant = "mcp"
    /\ system = ""
    /\ tools = <<>>
    /\ script = <<AnswerRound, AnswerRound>>
    /\ maxTurns = 1
    /\ chatModel = FALSE
    /\ vm = InitVM
    /\ wk = [w \in Workers |-> IdleWorker]
    /\ mcpClient \in {NewClient(cfg) : cfg \in McpConfigs}
    /\ mcpGlobal = NoMcp

NextMcpClient == ClientInitialize \/ GetToolsForAgent

SpecMcpClient == InitMcpClient /\ [][NextMcpClient]_vars

\* ------------------------------------------- the package's globalManager
\* Each of the three functions holds managerMu from its first statement to
\* its return, so a call is one step whatever the goroutines' interleaving.
\* managers are the Manager values made so far, globalManager the index of
\* the installed one (0 for nil), got what the last GetGlobalManager
\* returned and gets the parity of the calls made.
GlobalConfigs == {cfg \in McpConfigs : DOMAIN cfg = {"a"}}

NewManager(cfg) == [client |-> NewClient(cfg), closed |-> 0]

\* Manager.Close
CloseManager(managers, i) == [managers EXCEPT ![i].closed = @ + 1]

InitializeGlobalManager ==
    /\ Len(mcpGlobal.managers) < MaxManagers
    /\ \E cfg \in GlobalConfigs : \E client \in Initialized(NewClient(cfg)) :
        LET old == mcpGlobal.globalManager
            closed == IF old # 0 THEN CloseManager(mcpGlobal.managers, old)
                      ELSE mcpGlobal.managers IN
        mcpGlobal' = [mcpGlobal EXCEPT
                         !.managers = Append(closed, [NewManager(cfg) EXCEPT !.client = client]),
                         !.globalManager = Len(closed) + 1,
                         !.lastInit = client.state,
                         !.closedSince = FALSE]
    /\ UNCHANGED <<variant, system, tools, script, maxTurns, chatModel, vm, wk, mcpClient>>

GetGlobalManager ==
    /\ mcpGlobal' = [mcpGlobal EXCEPT !.got = mcpGlobal.globalManager,
                                      !.gets = (@ + 1) % 2]
    /\ UNCHANGED <<variant, system, tools, script, maxTurns, chatModel, vm, wk, mcpClient>>

CloseGlobalManager ==
    /\ mcpGlobal' = [mcpGlobal EXCEPT
                         !.managers = IF mcpGlobal.globalManager # 0
                                      THEN CloseManager(@, mcpGlobal.globalManager)
                                      ELSE @,
                         !.globalManager = 0,
                         !.closedSince = TRUE]
    /\ UNCHANGED <<variant, system, tools, script, maxTurns, chatModel, vm, wk, mcpClient>>

InitGlobal ==
    /\ variant = "mcp"
    /\ system = ""
    /\ tools = <<>>
    /\ script = <<AnswerRound, AnswerRound>>
    /\ maxTurns = 1
    /\ chatModel = FALSE
    /\ vm = InitVM
    /\ wk = [w \in Workers |-> IdleWorker]
    /\ mcpClient = NoMcp
    /\ mcpGlobal = [managers |-> <<>>, globalManager |-> 0, lastInit |-> "none",
                    closedSince |-> FALSE, got |-> 0, gets |-> 0]

NextGlobal ==
    \/ InitializeGlobalManager
    \/ GetGlobalManager
    \/ CloseGlobalManager

SpecGlobal == InitGlobal /\ [][NextGlobal]_vars

\* ------------------------------------------------------------ properties
\* what the properties read off a worker's record
IsTerminal(ev) == ev.type \in {"ResponseMsg", "ErrorMsg"}

ErrorCount(evs) == Cardinality({i \in DOMAIN evs : evs[i].type = "ErrorMsg"})

AssistantCount(msgs) == Cardinality({i \in DOMAIN msgs : msgs[i].Role = "assistant"})

LastEvent(rec) == rec.events[Len(rec.events)]

\* the adapter's last error ended the turn / was any error but io.EOF
Fatal(rec) == rec.failure \in {"stream", Broken}
Failed(rec) == rec.failure # ""

\* the index of the last Assistant message before position i, or 0
LastAssistantBefore(msgs, i) ==
    LET before == {j \in 1..(i - 1) : msgs[j].Role = "assistant"} IN
    IF before = {} THEN 0 ELSE CHOOSE j \in before : \A k \in before : k <= j

\* the stub model asks for a tool in every round and its streams end with io.EOF
RequestsTools(round) ==
    /\ ~round.err
    /\ round.end = EOF
    /\ \E i \in DOMAIN round.chunks : Len(round.chunks[i].ToolCalls) > 0

AlwaysRequestsTools == \A i \in DOMAIN script : RequestsTools(script[i])

\* C1: every turn delivers exactly one terminal event (ResponseMsg or
\* ErrorMsg) to the sink, and no event of the turn is delivered after it:
\* a terminal event is always the last event, and a finished turn has one.
C1_OneTerminalEventLast ==
    \A w \in Workers :
        /\ \A i \in DOMAIN wk[w].events :
              IsTerminal(wk[w].events[i]) => i = Len(wk[w].events)
        /\ wk[w].pc = "done" =>
              /\ Len(wk[w].events) > 0
              /\ IsTerminal(LastEvent(wk[w]))

\* C2: every submitted turn delivers a terminating event (ResponseMsg or
\* ErrorMsg), whatever the model streams, so that once the workers have
\* finished the view model is no longer waiting.
C2_TurnEndsWithTerminalEvent ==
    /\ \A w \in Workers :
          wk[w].pc = "done" =>
              \E i \in DOMAIN wk[w].events : IsTerminal(wk[w].events[i])
    /\ (Started # {} /\ Active = {}) => ~vm.isWaiting

\* C3: turns of a session are serialized: while the worker of a submitted
\* message is in processConversation no other worker is.
Conversing == {w \in Workers : wk[w].pc \notin {"idle", "send", "done"}}

C3_OneActiveWorker == Cardinality(Conversing) <= 1

\* C4: with a model that requests a tool call in every round, a turn that
\* entered processConversation ends after exactly 10 Stream calls with the
\* iteration-limit error as its last event.
C4_TenRoundsThenLimit ==
    \A w \in Workers :
        (AlwaysRequestsTools /\ wk[w].pc = "done" /\ wk[w].iteration >= 1) =>
            /\ wk[w].streams = maxIterations
            /\ LastEvent(wk[w]) = ErrorMsg(LimitText)

LastRoundRanTools(rec) ==
    /\ rec.iteration >= 1
    /\ ~(Fatal(rec) /\ rec.failedAt = rec.iteration)
    /\ rec.hasAssistant
    /\ Len(rec.assistantMessage.ToolCalls) > 0

C6_ToolMessageAnswersLastAssistant ==
    \A w \in Workers :
        \A i \in DOMAIN wk[w].messages :
            wk[w].messages[i].Role = "tool" =>
                LET j == LastAssistantBefore(wk[w].messages, i) IN
                /\ j > 0
                /\ \E k \in DOMAIN wk[w].messages[j].ToolCalls :
                      wk[w].messages[j].ToolCalls[k].ID = wk[w].messages[i].ToolCallID

\* a history whose second Assistant message asks for another call than the
\* first, with the Tool messages of both
C6_Witness ==
    \E w \in Workers :
        \E i, j \in DOMAIN wk[w].messages :
            /\ i < j
            /\ wk[w].messages[i].Role = "tool"
            /\ wk[w].messages[j].Role = "tool"
            /\ wk[w].messages[i].ToolCallID # wk[w].messages[j].ToolCallID
            /\ LastAssistantBefore(wk[w].messages, i) # LastAssistantBefore(wk[w].messages, j)

\* what stopping at once after the adapter's error of round failedAt means
StoppedAtFailure(rec) ==
    /\ rec.pc = "done" \/ (variant = "ui" /\ rec.pc = "broken")
    /\ rec.streams = rec.failedAt
    /\ \A i \in DOMAIN rec.invoked : rec.invoked[i].round # rec.failedAt
    /\ rec.pc = "done" =>
          /\ LastEvent(rec).type = "ErrorMsg"
          /\ ErrorCount(rec.events) = 1

\* C7 (as stated): when Stream returns an error or Recv returns any error
\* but io.EOF, the turn sends an error event and stops: no further Stream
\* call, and no tool call of that round is executed.
C7_AnyAdapterErrorStops ==
    \A w \in Workers : Failed(wk[w]) => StoppedAtFailure(wk[w])

\* C7 (amended): the same for an error of Stream and for every Recv error
\* but io.EOF and "io: read/write on closed pipe", which the loops take for
\* the end of the stream.
C7_FatalAdapterErrorStops ==
    \A w \in Workers : Fatal(wk[w]) => StoppedAtFailure(wk[w])

\* a turn stopped by a Recv error in its second round, after a tool ran
C7_Witness ==
    \E w \in Workers :
        /\ wk[w].failure = Broken
        /\ wk[w].failedAt = 2
        /\ wk[w].pc = "done"
        /\ Len(wk[w].invoked) > 0

\* the messages a turn starts from, by their roles
OnlyFirstMessages(rec) ==
    /\ Len(rec.messages) \in {1, 2}
    /\ rec.messages[Len(rec.messages)] = UserMessage(rec.prompt)
    /\ Len(rec.messages) = 2 => rec.messages[1].Role = "system"

\* C8 (as stated): if the adapter fails in round 1 (any error but io.EOF),
\* the sink gets exactly one error event and the history holds only the
\* messages present before the round.
C8_AnyFirstRoundErrorOneEvent ==
    \A w \in Workers :
        (Failed(wk[w]) /\ wk[w].failedAt = 1 /\ wk[w].iteration = 1 /\ wk[w].pc = "done") =>
            /\ ErrorCount(wk[w].events) = 1
            /\ OnlyFirstMessages(wk[w])

\* C8 (amended): the same for an error of Stream and for every Recv error
\* but io.EOF and "io: read/write on closed pipe".
C8_FatalFirstRoundErrorOneEvent ==
    \A w \in Workers :
        (Fatal(wk[w]) /\ wk[w].failedAt = 1 /\ wk[w].pc = "done") =>
            /\ ErrorCount(wk[w].events) = 1
            /\ OnlyFirstMessages(wk[w])

\* round 1 broke after a chunk had been streamed, and the turn is over
C8_Witness ==
    \E w \in Workers :
        /\ wk[w].failure = Broken
        /\ wk[w].failedAt = 1
        /\ wk[w].pc = "done"
        /\ wk[w].pos > 0

\* C9: a tool-level failure never aborts the turn: every round that went
\* on to execute tools is followed by another Stream call (or, after the
\* tenth round, by the iteration-limit error).
C9_ToolFailureNeverAborts ==
    \A w \in Workers :
        (wk[w].pc = "done" /\ AssistantCount(wk[w].messages) >= 1) =>
            \/ wk[w].streams > AssistantCount(wk[w].messages)
            \/ LastEvent(wk[w]) = ErrorMsg(LimitText)

\* C10: for a call of a tool that is not registered, the Tool message with
\* the reason "tool '<name>' does not exist" comes with an event to the
\* sink that names the tool and gives that reason.
C10_UnregisteredToolReported ==
    \A w \in Workers :
        \A i \in DOMAIN wk[w].toolMessages :
            LET tm == wk[w].toolMessages[i] IN
            tm.Content = NotExistText(tm.ToolName) =>
                \E e \in DOMAIN wk[w].events :
                    /\ wk[w].events[e].type = "StreamChunkMsg"
                    /\ wk[w].events[e].text = "failed: " \o NotExistText(tm.ToolName)

\* the Tool messages that follow the Assistant message at j answer its
\* ToolCalls one for one, in their order
AnsweredInOrder(msgs, j) ==
    LET n == Len(msgs[j].ToolCalls) IN
    /\ j + n <= Len(msgs)
    /\ \A k \in 1..n :
          /\ msgs[j + k].Role = "tool"
          /\ msgs[j + k].ToolCallID = msgs[j].ToolCalls[k].ID
    /\ j + n < Len(msgs) => msgs[j + n + 1].Role # "tool"

\* C11: when the next model round starts, every ToolCall of every Assistant
\* message of the history is answered by exactly one Tool message, and the
\* Tool messages stand in the order of the ToolCalls.
C11_EachCallAnsweredInOrder ==
    \A w \in Workers :
        wk[w].pc = "loop" =>
            \A j \in DOMAIN wk[w].messages :
                wk[w].messages[j].Role = "assistant" =>
                    AnsweredInOrder(wk[w].messages, j)

\* how many events among the first n of evs have a kind of kinds, for call id
KindCount(evs, n, kinds, id) ==
    Cardinality({i \in 1..n : evs[i].kind \in kinds /\ evs[i].call = id})

\* every event of evs with a kind of finished has, before it, an "invoked"
\* event of the same call that no earlier such event has used up
InvokedFirst(evs, finished) ==
    \A j \in DOMAIN evs :
        evs[j].kind \in finished =>
            KindCount(evs, j - 1, {"invoked"}, evs[j].call) >=
                KindCount(evs, j, finished, evs[j].call)

\* C12 (as stated): every tool-completed or tool-failed event of a turn,
\* the report of an unregistered tool included, comes after a tool-invoked
\* event of the same call.
C12_EveryReportAfterInvoked ==
    \A w \in Workers : InvokedFirst(wk[w].events, {"completed", "failed", "missing"})

\* C12 (amended): the report of the result or of the error of InvokableRun
\* comes after the tool-invoked event of that call, and between two
\* tool-invoked events of a turn there is the result or error of the first;
\* the report of an unregistered tool comes without a tool-invoked event.
C12_RunReportAfterInvoked ==
    \A w \in Workers :
        /\ InvokedFirst(wk[w].events, {"completed", "failed"})
        /\ \A i, j \in DOMAIN wk[w].events :
              (i < j /\ wk[w].events[i].kind = "invoked" /\ wk[w].events[j].kind = "invoked") =>
                  \E k \in (i + 1)..(j - 1) :
                      /\ wk[w].events[k].kind \in {"completed", "failed"}
                      /\ wk[w].events[k].call = wk[w].events[i].call
        /\ \A j \in DOMAIN wk[w].events :
              wk[w].events[j].kind = "missing" =>
                  KindCount(wk[w].events, j, {"invoked"}, wk[w].events[j].call) = 0

\* one round ran a tool that failed and then a tool that succeeded
C12_Witness ==
    \E w \in Workers :
        \E i, j \in DOMAIN wk[w].events :
            /\ i < j
            /\ wk[w].events[i].kind = "failed"
            /\ wk[w].events[j].kind = "completed"
            /\ wk[w].pc = "done"

\* The finalized calls a list of streamed fragments stands for: a fragment
\* without an id continues the call of its index, a fragment with an id
\* that is already there continues that call, any other starts a call.
MergeInto(acc, f) ==
    LET same == {k \in DOMAIN acc :
                    IF f.ID = "" THEN acc[k].Index = f.Index ELSE acc[k].ID = f.ID} IN
    IF same = {} THEN Append(acc, f)
    ELSE LET k == CHOOSE x \in same : \A y \in same : y <= x IN
         [acc EXCEPT ![k] = [@ EXCEPT !.Name = @ \o f.Name,
                                      !.Arguments = @ \o f.Arguments]]

RECURSIVE MergeAll(_)
MergeAll(frags) ==
    IF Len(frags) = 0 THEN <<>>
    ELSE MergeInto(MergeAll(SubSeq(frags, 1, Len(frags) - 1)), frags[Len(frags)])

RECURSIVE FragmentsOf(_)
FragmentsOf(chunks) ==
    IF Len(chunks) = 0 THEN <<>>
    ELSE FragmentsOf(SubSeq(chunks, 1, Len(chunks) - 1)) \o chunks[Len(chunks)].ToolCalls

\* C13: the calls a round hands to executeToolCalls are the calls its
\* fragments stand for, each once with its fragments merged, and a round is
\* taken to have no tool call only if no fragment carried one.
C13_FragmentsMergedAndKept ==
    \A w \in Workers :
        LET merged == MergeAll(FragmentsOf(RoundOf(wk[w].iteration).chunks)) IN
        /\ wk[w].pc = "exec" => wk[w].toolCalls = merged
        /\ (wk[w].pc = "after" /\ ~HasToolCalls(wk[w])) => merged = <<>>

\* the turn of rec was ended by the Recv error of its current round: the
\* error event is its last event, and the round ran no tool
EndedByRecvError(rec) ==
    /\ rec.pc \in {"recv", "read", "broken", "done"}
    /\ rec.pc = "done" =>
          /\ LastEvent(rec) = ErrorMsg("stream error: " \o RoundOf(rec.iteration).end)
          /\ rec.streams = rec.iteration
          /\ \A i \in DOMAIN rec.invoked : rec.invoked[i].round # rec.iteration

\* C14 (as stated): only io.EOF ends a round normally; when the stream of
\* the current round ends with any other error the turn neither completes
\* the round nor runs its tools nor starts another round, and ends with the
\* error event.
C14_OnlyEOFIsNormal ==
    \A w \in Workers :
        LET r == RoundOf(wk[w].iteration) IN
        (wk[w].iteration >= 1 /\ ~r.err /\ r.end # EOF) => EndedByRecvError(wk[w])

\* C14 (amended): the same with "io: read/write on closed pipe" taken for
\* the end of the stream like io.EOF.
C14_OnlyEOFAndClosedPipeAreNormal ==
    \A w \in Workers :
        LET r == RoundOf(wk[w].iteration) IN
        (wk[w].iteration >= 1 /\ ~r.err /\ r.end \notin {EOF, ClosedPipe}) =>
            EndedByRecvError(wk[w])

\* a round whose chunks asked for a tool broke, and the turn ended without
\* running it
C14_Witness ==
    \E w \in Workers :
        /\ wk[w].pc = "done"
        /\ wk[w].iteration = 1
        /\ RoundOf(1).end = Broken
        /\ \E i \in DOMAIN RoundOf(1).chunks : Len(RoundOf(1).chunks[i].ToolCalls) > 0
        /\ wk[w].invoked = <<>>

\* C15: a tool-level failure never crosses to the sink as a turn error: no
\* ErrorMsg is sent for a tool that cannot be resolved or a tool invocation
\* that fails, and after an event that reports such a failure the UI keeps
\* waiting for as long as the turn goes on.
ToolLevelErrors ==
    {ErrorMsg(ToolsErrorText)} \cup
    {ErrorMsg(ToolErrorText(d.name, d.value)) : d \in CallbackData}

C15_ToolFailureNeverTurnError ==
    \A w \in Workers :
        /\ \A i \in DOMAIN wk[w].events : wk[w].events[i] \notin ToolLevelErrors
        /\ (/\ wk[w].pc \notin {"idle", "done"}
            /\ Cardinality(Started) = 1
            /\ wk[w].events # <<>>
            /\ LastEvent(wk[w]).kind \in {"failed", "missing"}) => vm.isWaiting

\* C16: once the turn is cancelled during the execution of a round's tool
\* calls, no further tool of that round is called, and the turn ends with
\* the error event "cancelled", the Tool results of that round being in the
\* history.
C16_CancelStopsToolCalls ==
    [][\A w \in Workers :
          (vm.quit /\ wk[w].pc = "tools") =>
              /\ wk'[w].pc # "invoke"
              /\ wk'[w].pc # "tools" =>
                     /\ wk'[w].pc = "done"
                     /\ LastEvent(wk'[w]) = ErrorMsg("cancelled")
                     /\ wk'[w].messages = wk[w].messages \o wk[w].toolMessages]_vars

\* C17: two runs of the same turn (the same prompt given to the same stub
\* model and stub tools, all of them created) send the same events and end
\* with the same message history.
Instantiated(rec) ==
    \A i \in DOMAIN rec.events :
        rec.events[i] \notin {ErrorMsg("create model failed"),
                              ErrorMsg("create tools failed"),
                              ErrorMsg(ToolsErrorText)}

SameTurnTwice(v, w) ==
    /\ ~WithAgent
    /\ wk[v].pc = "done" /\ wk[w].pc = "done"
    /\ wk[v].prompt = wk[w].prompt
    /\ Instantiated(wk[v]) /\ Instantiated(wk[w])

OneCallThenAnswer ==
    /\ ~script[1].err
    /\ script[1].end = EOF
    /\ Len(FragmentsOf(script[1].chunks)) = 1
    /\ FragmentsOf(script[1].chunks)[1].Name = "ok"
    /\ script[2] = AnswerRound

C18_InvokedCompletedDone ==
    \A w \in Workers :
        (/\ OneCallThenAnswer
         /\ wk[w].pc = "done"
         /\ Instantiated(wk[w])) =>
            /\ \E i, j \in DOMAIN wk[w].events :
                  /\ i < j
                  /\ j < Len(wk[w].events)
                  /\ wk[w].events[i].kind = "invoked"
                  /\ wk[w].events[j].kind = "completed"
            /\ LastEvent(wk[w]) = ResponseMsg("a")

\* C19: during a turn the history only grows by appending: a step never
\* shortens it and never changes a message that is in it.
C19_HistoryOnlyGrows ==
    [][\A w \in Workers :
          /\ Len(wk'[w].messages) >= Len(wk[w].messages)
          /\ \A i \in DOMAIN wk[w].messages :
                 wk'[w].messages[i] = wk[w].messages[i]]_vars

C19_Witness ==
    \E w \in Workers :
        /\ wk[w].pc = "done"
        /\ AssistantCount(wk[w].messages) >= 2
        /\ \E i \in DOMAIN wk[w].messages : wk[w].messages[i].Role = "tool"

\* C20: the iteration counter starts a turn at 0 and goes up by one with
\* every Stream call, so at every point of a turn it is the number of
\* Stream calls the turn has started.
C20_IterationCountsStreams ==
    \A w \in Workers :
        /\ wk[w].iteration = wk[w].streams
        /\ wk[w].pc \in {"idle", "send"} => wk[w].iteration = 0

C20_Witness ==
    \E w \in Workers :
        /\ wk[w].pc = "recv"
        /\ wk[w].iteration = 3
        /\ wk[w].streams = 3

\* C21: the text sent to the sink for a tool result is the result cut to
\* the display bound (500 characters and the truncation mark) when it is
\* longer, and the Tool message of the history carries the whole result.
ResultPrefix == "result: "

ToolMessagesOf(rec) ==
    {rec.messages[i] : i \in DOMAIN rec.messages} \cup
    {rec.toolMessages[i] : i \in DOMAIN rec.toolMessages}

C21_ResultShownTruncatedKeptWhole ==
    \A w \in Workers :
        \A i \in DOMAIN wk[w].events :
            LET e == wk[w].events[i] IN
            e.kind = "completed" =>
                \E tm \in ToolMessagesOf(wk[w]) :
                    /\ tm.Role = "tool"
                    /\ tm.ToolCallID = e.call
                    /\ tm.Content = InvokableRun(tm.ToolName, "{long}").text
                          \/ tm.Content = InvokableRun(tm.ToolName, "{}").text
                    /\ e.text = ResultPrefix \o
                                 (IF Len(tm.Content) > DisplayLimit
                                  THEN SubSeq(tm.Content, 1, DisplayLimit) \o "...(truncated)"
                                  ELSE tm.Content)

\* C22: a message list handed to the model has at most one System message,
\* and a System message in it is its first message.
C22_OneSystemMessageFirst ==
    \A w \in Workers :
        {i \in DOMAIN wk[w].messages : wk[w].messages[i].Role = "system"} \subseteq {1}

C22_Witness ==
    \E w \in Workers :
        /\ wk[w].pc = "recv"
        /\ wk[w].iteration >= 2
        /\ wk[w].messages[1].Role = "system"
        /\ Len(wk[w].messages) >= 4

\* C23: the history lives for the session: the list the first round of a
\* turn hands to the model is the history the turn before ended with,
\* extended by the new User message.
C23_HistoryCarriedToNextTurn ==
    \A w \in Workers :
        (/\ w > 1
         /\ wk[w].pc = "loop"
         /\ wk[w].iteration = 0
         /\ wk[w - 1].pc = "done"
         /\ wk[w - 1].streams >= 1) =>
            wk[w].messages = wk[w - 1].messages \o <<UserMessage(wk[w].prompt)>>

\* C24: the iteration-limit error is sent only after 10 rounds that each
\* asked for tool calls; a turn one of whose rounds, up to the tenth, gave
\* an answer with no tool call sends no iteration-limit error.
HasLimitError(rec) == \E i \in DOMAIN rec.events : rec.events[i] = ErrorMsg(LimitText)

C24_LimitOnlyAfterTenToolRounds ==
    \A w \in Workers :
        HasLimitError(wk[w]) =>
            /\ wk[w].streams = maxIterations
            /\ AssistantCount(wk[w].messages) = maxIterations

\* C25: in every round the content deltas are sent in the order the chunks
\* arrive, and the content the round's ResponseMsg carries is the
\* concatenation of the deltas of that round alone.
RECURSIVE ContentOf(_)
ContentOf(chunks) ==
    IF Len(chunks) = 0 THEN ""
    ELSE ContentOf(SubSeq(chunks, 1, Len(chunks) - 1)) \o chunks[Len(chunks)].Content

\* the last n events before the position `last` are the deltas of the first
\* n chunks of the round, in order
DeltasInOrder(rec, n, last) ==
    /\ last >= n
    /\ \A k \in 1..n :
          rec.events[last - n + k] = StreamChunkMsg(RoundOf(rec.iteration).chunks[k].Content)

C25_DeltasInOrderAndSummed ==
    \A w \in Workers :
        LET rec == wk[w]
            chunks == RoundOf(rec.iteration).chunks IN
        /\ rec.pc = "recv" =>
              /\ DeltasInOrder(rec, rec.pos, Len(rec.events))
              /\ rec.fullContent = ContentOf(SubSeq(chunks, 1, rec.pos))
        /\ (/\ rec.pc \in {"exec", "after"}
            /\ rec.pc = "after" => ~HasToolCalls(rec)
            /\ ContentOf(chunks) # "") =>
              /\ LastEvent(rec) = ResponseMsg(ContentOf(chunks))
              /\ DeltasInOrder(rec, Len(chunks), Len(rec.events) - 1)

C25_Witness ==
    \E w \in Workers :
        /\ wk[w].pc = "after"
        /\ wk[w].iteration = 2
        /\ Len(script[1].chunks) = 2
        /\ ContentOf(script[1].chunks) = "aa"
        /\ LastEvent(wk[w]) = ResponseMsg("a")

\* C26: a turn goes Idle -> Streaming -> {Streaming | Dispatching} ->
\* (Done | Error): tools are dispatched only after a stream round that ended
\* with tool calls, and dispatching is left only for the loop head, that
\* is for another stream round or the iteration-limit error, never for the
\* end of the turn.
Streaming == {"recv", "round"}
Dispatching == {"exec", "tools", "invoke"}

C26_TurnStateSequence ==
    [][\A w \in Workers :
          /\ (wk[w].pc \notin Dispatching /\ wk'[w].pc \in Dispatching) =>
                 /\ wk[w].pc \in Streaming
                 /\ HasToolCalls(wk[w])
          /\ (wk[w].pc \in Dispatching /\ wk'[w].pc \notin Dispatching) =>
                 wk'[w].pc = "loop"
          /\ (wk[w].pc = "loop" /\ wk[w].iteration >= 1 /\ wk'[w].pc = "done") =>
                 LastEvent(wk'[w]).type = "ErrorMsg"
          /\ (wk[w].pc = "idle" /\ wk'[w].pc # "idle") => wk'[w].pc = "send"]_vars

\* C27: when the iteration-limit error follows a tenth round that asked for
\* tool calls, those calls were executed and their Tool messages appended
\* to the history before the error was sent.
LastAssistant(msgs) == LastAssistantBefore(msgs, Len(msgs) + 1)

C28_KeysIgnoredWhileWaiting ==
    [][\A key \in StepKeys \ {"ctrl+c"} :
          (vm.isWaiting /\ StepsKey(key)) => [vm' EXCEPT !.quit = vm.quit] = vm]_vars

\* C29: no streamed text is lost or duplicated: when a ResponseMsg or an
\* ErrorMsg comes after stream chunks, the pending streamingContent goes
\* into exactly one appended assistant message, streamingContent becomes
\* empty and isWaiting false.
NewAssistantTexts(m, n) ==
    {i \in DOMAIN n.messages :
        /\ i > Len(m.messages)
        /\ n.messages[i].Type = "assistant"}

C29_StreamedTextKeptOnce ==
    [][\A w \in Workers :
          (/\ Len(wk'[w].events) = Len(wk[w].events) + 1
           /\ IsTerminal(LastEvent(wk'[w]))
           /\ vm.streamingContent # "") =>
              /\ vm'.streamingContent = ""
              /\ ~vm'.isWaiting
              /\ Cardinality(NewAssistantTexts(vm, vm')) = 1
              /\ \A i \in NewAssistantTexts(vm, vm') :
                     vm'.messages[i].Content = vm.streamingContent]_vars

\* C30: in the agent UI each ToolEndMsg(name) resolves exactly one tool
\* entry: the most recent waiting entry of that name becomes success or
\* error and no entry is added; only when no such entry waits is one
\* completed entry appended.  A resolved entry never waits again, so the
\* waiting entries of a name number the ToolStartMsg sent minus the
\* ToolEndMsg that found one.
WaitingOf(m, name) ==
    {i \in DOMAIN m.messages :
        /\ m.messages[i].Type = "tool"
        /\ m.messages[i].Name = name
        /\ m.messages[i].ToolStatus = "waiting"}

\* ToolStartMsg(name) sent minus the ToolEndMsg(name) that were matched
RECURSIVE StartsLessMatched(_, _)
StartsLessMatched(evs, name) ==
    IF evs = <<>> THEN 0
    ELSE LET before == StartsLessMatched(SubSeq(evs, 1, Len(evs) - 1), name)
             ev == evs[Len(evs)] IN
         IF ev.type = "ToolStartMsg" /\ ev.text = name THEN before + 1
         ELSE IF ev.type = "ToolEndMsg" /\ ev.text = name /\ before > 0 THEN before - 1
         ELSE before

ToolEndResolvesOne(w) ==
    LET ev == LastEvent(wk'[w])
        waiting == WaitingOf(vm, ev.text) IN
    (Len(wk'[w].events) = Len(wk[w].events) + 1 /\ ev.type = "ToolEndMsg") =>
        IF waiting # {}
        THEN /\ Len(vm'.messages) = Len(vm.messages)
             /\ \E i \in waiting :
                    /\ \A j \in waiting : j <= i
                    /\ vm'.messages[i].ToolStatus \in {"success", "error"}
                    /\ \A j \in DOMAIN vm.messages \ {i} :
                           vm'.messages[j] = vm.messages[j]
        ELSE /\ Len(vm'.messages) = Len(vm.messages) + 1
             /\ SubSeq(vm'.messages, 1, Len(vm.messages)) = vm.messages
             /\ vm'.messages[Len(vm'.messages)].Type = "tool"
             /\ vm'.messages[Len(vm'.messages)].Name = ev.text
             /\ vm'.messages[Len(vm'.messages)].ToolStatus = "success"

NeverWaitsAgain ==
    \A i \in DOMAIN vm.messages :
        (vm.messages[i].Type = "tool" /\ vm.messages[i].ToolStatus # "waiting") =>
            /\ i \in DOMAIN vm'.messages
            /\ vm'.messages[i].ToolStatus = vm.messages[i].ToolStatus

C30_ToolEndResolvesLatestWaiting ==
    /\ [][NeverWaitsAgain /\ \A w \in Workers : ToolEndResolvesOne(w)]_vars
    /\ [](\A name \in {"ok", "bad"} :
             Cardinality(WaitingOf(vm, name)) = StartsLessMatched(wk[1].events, name))

\* two entries of one name waited and the end message resolved the later one
C30_Witness ==
    /\ wk[1].pc = "agent"
    /\ Len(wk[1].events) = 3
    /\ LastEvent(wk[1]).type = "ToolEndMsg"
    /\ \E i, j \in DOMAIN vm.messages :
           /\ i < j
           /\ vm.messages[i].Type = "tool" /\ vm.messages[j].Type = "tool"
           /\ vm.messages[i].Name = vm.messages[j].Name
           /\ vm.messages[i].ToolStatus = "waiting"
           /\ vm.messages[j].ToolStatus = "error"

\* C31: every tool start and tool end the agent's ToolCallCallback reports
\* for a node that is not an internal component reaches the UI as a
\* ToolStartMsg / ToolEndMsg of the same name, in the order reported, and
\* no event of an internal component is forwarded.
IsToolReport(ev) ==
    /\ ev.Name # ""
    /\ ~isInternalComponent(ev.Name)
    /\ ev.Type \in {"start", "end"}

IsToolMsg(msg) == msg.type \in {"ToolStartMsg", "ToolEndMsg"}

C31_ToolEventsReachUi ==
    \A w \in Workers :
        LET told == SelectSeq(wk[w].reported, IsToolReport)
            shown == SelectSeq(wk[w].events, IsToolMsg) IN
        /\ Len(shown) = Len(told)
        /\ \A i \in DOMAIN told :
               /\ shown[i].text = told[i].Name
               /\ shown[i].type = (IF told[i].Type = "start" THEN "ToolStartMsg"
                                   ELSE "ToolEndMsg")

\* C32: ChatStream ends every call in one of two ways: the end marker (a
\* content chunk with empty Content) once and nil, or one error chunk and
\* an error; either is the last chunk delivered, and the non-empty content
\* chunks are the stream's non-empty contents in order.
IsEndMarker(chunk) == chunk.Type = "content" /\ chunk.Content = ""
IsErrorChunk(chunk) == chunk.Type = "error"
IsText(chunk) == chunk.Type = "content" /\ chunk.Content # ""
HasText(msg) == msg.Content # ""

TextsInOrder(rec) ==
    LET sent == SelectSeq(rec.chunks, IsText)
        read == SelectSeq(SubSeq(RoundOf(1).chunks, 1, rec.pos), HasText) IN
    /\ Len(sent) = Len(read)
    /\ \A i \in DOMAIN sent : sent[i].Content = read[i].Content

EndsOneWay(rec) ==
    LET markers == Len(SelectSeq(rec.chunks, IsEndMarker))
        errors == Len(SelectSeq(rec.chunks, IsErrorChunk)) IN
    \/ /\ rec.returned = "nil"
       /\ markers = 1 /\ errors = 0
       /\ IsEndMarker(rec.chunks[Len(rec.chunks)])
    \/ /\ rec.returned = "error"
       /\ markers = 0 /\ errors = 1
       /\ IsErrorChunk(rec.chunks[Len(rec.chunks)])

C32_ChatStreamEndsOneWay ==
    \A w \in Workers :
        /\ TextsInOrder(wk[w])
        /\ wk[w].returned # "" => EndsOneWay(wk[w])

\* C33: after a discovery that succeeded, GetToolsForServers(S) returns
\* exactly the tools discovered from the servers named in S and no tool
\* discovered from a server outside S.
C33_ToolsOfNamedServersOnly ==
    (mcpClient.called /\ mcpClient.state = "ok") =>
        {[server |-> r.server, tool |-> r.tool] : r \in mcpClient.result}
            = {[server |-> r.server, tool |-> r.tool] :
                  r \in {d \in mcpClient.discovered : d.server \in mcpClient.asked}}

\* C34: under any interleaving of InitializeGlobalManager, GetGlobalManager
\* and CloseGlobalManager, GetGlobalManager returns a manager only if the
\* most recent InitializeGlobalManager succeeded and CloseGlobalManager has
\* not run since; a failed InitializeGlobalManager leaves no manager
\* installed, and a replaced manager is closed exactly once.
LastInitStands == mcpGlobal.lastInit = "ok" /\ ~mcpGlobal.closedSince

FailedInitLeavesNone ==
    (mcpGlobal.lastInit = "failed" /\ ~mcpGlobal.closedSince) =>
        mcpGlobal.globalManager = 0

ReplacedClosedOnce ==
    \A i \in DOMAIN mcpGlobal.managers :
        mcpGlobal.managers[i].closed = (IF i = mcpGlobal.globalManager THEN 0 ELSE 1)

C34_ManagerOnlyAfterGoodInit ==
    /\ [](FailedInitLeavesNone /\ ReplacedClosedOnce)
    /\ [][(mcpGlobal'.gets # mcpGlobal.gets /\ mcpGlobal'.got # 0) => LastInitStands]_vars

====
